---- MODULE Spec2Model ----
(***************************************************************************)
(* A model of the VM toolchain of Hitman-45/Assembler-Linker-and-Loader:   *)
(*   - the linker            src/vmlink.cpp           (specification Spec) *)
(*   - the assembler parser  src/unnamed/part_000     (SpecAsm)            *)
(*   - the earlier assembler src/vm_asm.cpp           (SpecAsmOld)         *)
(*   - the macro processor   src/unnamed/part_000     (SpecMacro)          *)
(*   - the lexer             src/unnamed/part_000     (SpecLex)            *)
(*   - the object reader     src/vmlink.cpp           (SpecRead)           *)
(*   - the loader            src/test5.asm            (SpecLoad)           *)
(* Every tool is a single-threaded batch program; an action is one step of *)
(* its main procedure (one phase of the linker's main, one iteration of    *)
(* the parser's main loop).  A uint32_t is held as the integer with the    *)
(* same 32 bits (two's complement: 0xFFFFFFFE is -2); the sums of the code *)
(* that can wrap are formed with AddU32.                                   *)
(***************************************************************************)
EXTENDS Integers, Sequences, FiniteSets, TLC

\* ------------------------------------------------------------------------
\* Bounds of the model
\* ------------------------------------------------------------------------
\* number of object files on the linker's command line
MaxObjs == 2
\* symbol records in all input objects together
MaxSyms == 2
\* relocation records in all input objects together
MaxRels == 2
\* source lines given to the assembler
MaxLines == 3

\* ------------------------------------------------------------------------
\* Section tags (enum class Section)
\* ------------------------------------------------------------------------
UNDEF == 0
TEXT == 1
DATA == 2

NoError == [kind |-> "none"]

\* ------------------------------------------------------------------------
\* Byte helpers
\* ------------------------------------------------------------------------
\* write_u32: the four little-endian bytes of v
U32LE(v) ==
  << v % 256, (v \div 256) % 256, (v \div 65536) % 256, (v \div 16777216) % 256 >>

\* write_u16: the two little-endian bytes of v
U16LE(v) ==
  << v % 256, (v \div 256) % 256 >>

\* read_u32 at the 0-based offset off of the byte sequence b
read_u32(b, off) ==
  b[off + 1] + 256 * b[off + 2] + 65536 * b[off + 3]
    + 16777216 * (IF b[off + 4] >= 128 THEN b[off + 4] - 256 ELSE b[off + 4])

\* a + b in uint32_t: the sum modulo 2^32, formed from 16-bit halves
AddU32(a, b) ==
  LET lo == (a % 65536) + (b % 65536)
      hi == ((a \div 65536) + (b \div 65536) + (lo \div 65536)) % 65536
  IN (IF hi >= 32768 THEN hi - 65536 ELSE hi) * 65536 + (lo % 65536)

\* the uint32_t a compared with a size n: a > n
AboveSize(a, n) == a < 0 \/ a > n

\* read_u16 at the 0-based offset off of the byte sequence b
read_u16(b, off) ==
  b[off + 1] + 256 * b[off + 2]

\* the names that occur in the model
AllNames == {"main", "f", "r1"}

\* the bytes of a name (std::string contents)
NameBytes(n) ==
  CASE n = "main" -> << 109, 97, 105, 110 >>
    [] n = "f" -> << 102 >>
    [] n = "r1" -> << 114, 49 >>
    [] OTHER -> << 63 >>

\* the name with the given bytes: string(ptr, namelen)
NameOfBytes(bs) ==
  IF \E n \in AllNames : NameBytes(n) = bs
    THEN CHOOSE n \in AllNames : NameBytes(n) = bs
    ELSE "?"

RECURSIVE ReadSyms(_, _, _)
\* parse_vmo, symbol table loop: count records read from raw at the 0-based
\* position p (a size_t: no sum wraps); err names the exception when a
\* record or a name is truncated, p is the position after the last read
ReadSyms(raw, p, count) ==
  IF count = 0 THEN [ok |-> TRUE, err |-> "", symbols |-> << >>, p |-> p]
  ELSE IF AboveSize(p, Len(raw) - 10)
    THEN [ok |-> FALSE, err |-> "symbol table truncated", symbols |-> << >>,
          p |-> p]
  ELSE LET sec == read_u16(raw, p)
           flags == read_u16(raw, p + 2)
           val == read_u32(raw, p + 4)
           namelen == read_u16(raw, p + 8)
       IN IF p + 10 + namelen > Len(raw)
            THEN [ok |-> FALSE, err |-> "symbol name truncated",
                  symbols |-> << >>, p |-> p + 10]
          ELSE LET name == NameOfBytes(SubSeq(raw, p + 10 + 1, p + 10 + namelen))
                   rest == ReadSyms(raw, p + 10 + namelen, count - 1)
               IN [ok |-> rest.ok,
                   err |-> rest.err,
                   symbols |-> << [sec |-> sec, flags |-> flags,
                                   value |-> val, name |-> name] >>
                                 \o rest.symbols,
                   p |-> rest.p]

RECURSIVE ReadRels(_, _, _)
\* parse_vmo, relocation table loop: count records read from raw at the
\* 0-based position p
ReadRels(raw, p, count) ==
  IF count = 0 THEN [ok |-> TRUE, err |-> "", relocs |-> << >>]
  ELSE IF AboveSize(p, Len(raw) - 10)
    THEN [ok |-> FALSE, err |-> "reloc table truncated", relocs |-> << >>]
  ELSE LET sec == read_u16(raw, p)
           type == read_u16(raw, p + 2)
           offset == read_u32(raw, p + 4)
           namelen == read_u16(raw, p + 8)
       IN IF p + 10 + namelen > Len(raw)
            THEN [ok |-> FALSE, err |-> "reloc name truncated",
                  relocs |-> << >>]
          ELSE LET name == NameOfBytes(SubSeq(raw, p + 10 + 1, p + 10 + namelen))
                   rest == ReadRels(raw, p + 10 + namelen, count - 1)
               IN [ok |-> rest.ok,
                   err |-> rest.err,
                   relocs |-> << [sec |-> sec, type |-> type,
                                  offset |-> offset, name |-> name] >>
                                \o rest.relocs]

\* 'VMOF', the magic of object files
MAGIC == 1447907142

\* parse_vmo's test off + size > raw.size(): the sum is formed in uint32_t
SectionOutOfRange(off, size, n) ==
  AboveSize(AddU32(off, size), n)

\* the slice [off, off + size) that assign() copies lies in the n bytes
SliceInside(off, size, n) ==
  off >= 0 /\ size >= 0 /\ off <= n /\ size <= n - off

\* parse_vmo on the bytes raw of a file: the object read (ok), or the
\* exception thrown.  The version field at offset 4 is read and not used.
\* ub: the range tests passed and a slice lies outside the bytes of the
\* file, so that assign() reads outside the vector (undefined behaviour).
parse_vmo(raw) ==
  LET Fail(k) == [ok |-> FALSE, err |-> [kind |-> k], text |-> << >>,
                  data |-> << >>, symbols |-> << >>, relocs |-> << >>,
                  ub |-> FALSE]
  IN IF Len(raw) < 40 THEN Fail("File too small")
     ELSE IF read_u32(raw, 0) # MAGIC THEN Fail("Bad magic")
     ELSE LET ver == read_u16(raw, 4)
              text_off == read_u32(raw, 8)
              text_size == read_u32(raw, 12)
              data_off == read_u32(raw, 16)
              data_size == read_u32(raw, 20)
              sym_off == read_u32(raw, 24)
              sym_count == read_u32(raw, 28)
              rel_off == read_u32(raw, 32)
              rel_count == read_u32(raw, 36)
          IN IF SectionOutOfRange(text_off, text_size, Len(raw))
               THEN Fail("text section out of range")
             ELSE IF SectionOutOfRange(data_off, data_size, Len(raw))
               THEN Fail("data section out of range")
             ELSE IF \/ ~SliceInside(text_off, text_size, Len(raw))
                     \/ ~SliceInside(data_off, data_size, Len(raw))
               THEN [Fail("none") EXCEPT !.ub = TRUE]
             ELSE LET syms == ReadSyms(raw, sym_off, sym_count)
                      rels == ReadRels(raw, rel_off, rel_count)
                  IN IF ~syms.ok THEN Fail(syms.err)
                     ELSE IF ~rels.ok THEN Fail(rels.err)
                     ELSE [ok |-> TRUE, err |-> NoError,
                           text |-> SubSeq(raw, text_off + 1, text_off + text_size),
                           data |-> SubSeq(raw, data_off + 1, data_off + data_size),
                           symbols |-> syms.symbols,
                           relocs |-> rels.relocs,
                           ub |-> FALSE]

\* what a read outside the vector can end in: the process is killed by a
\* signal, the allocation of a slice of 2^31 bytes or more throws
\* bad_alloc or length_error (a message without the path), or the copy
\* reads whatever the memory holds and parsing goes on with those bytes
OutsideReadOutcomes ==
  { [ok |-> FALSE, err |-> [kind |-> k], text |-> << >>, data |-> << >>,
     symbols |-> << >>, relocs |-> << >>, ub |-> TRUE]
      : k \in {"signal", "std::bad_alloc"} }
  \cup
  { [ok |-> TRUE, err |-> NoError, text |-> t, data |-> << >>,
     symbols |-> << >>, relocs |-> << >>, ub |-> TRUE]
      : t \in {<< 0 >>, << 255 >>} }

\* all sequences over S of length at most n
SeqsUpTo(S, n) ==
  UNION { [1..k -> S] : k \in 0..n }

RECURSIVE SumLen(_, _)
\* sum of the first k entries of sizes
SumLen(sizes, k) ==
  IF k = 0 THEN 0 ELSE SumLen(sizes, k - 1) + sizes[k]

RECURSIVE Concat(_, _)
\* concatenation of the first k sequences of ss
Concat(ss, k) ==
  IF k = 0 THEN << >> ELSE Concat(ss, k - 1) \o ss[k]

\* ------------------------------------------------------------------------
\* Linker: input objects
\* ------------------------------------------------------------------------
LinkNames == {"main", "f"}

\* one encoded instruction (jmp 0) and three words of data
TextJmp == << 10, 0, 0, 0, 0, 0, 0, 0 >>
DataWord == << 7, 0, 0, 0 >>
DataThree == << 1, 0, 0, 0, 2, 0, 0, 0, 3, 0, 0, 0 >>

\* the (text, data) contents an input object may carry
SectionChoices ==
  { << TextJmp, << >> >>, << << >>, DataWord >>,
    << TextJmp, DataWord >>, << TextJmp, DataThree >> }

\* SymRec values read from an object's symbol table
SymChoices ==
  { [sec |-> TEXT, flags |-> 1, value |-> 0, name |-> "main"],
    [sec |-> DATA, flags |-> 0, value |-> 0, name |-> "f"],
    [sec |-> UNDEF, flags |-> 1, value |-> 0, name |-> "main"],
    [sec |-> TEXT, flags |-> 1, value |-> 8, name |-> "f"] }

\* RelRec values read from an object's relocation table
RelChoices ==
  { [sec |-> TEXT, type |-> 0, offset |-> 4, name |-> "main"],
    [sec |-> TEXT, type |-> 0, offset |-> 4, name |-> "f"],
    [sec |-> DATA, type |-> 0, offset |-> 0, name |-> "f"],
    [sec |-> DATA, type |-> 0, offset |-> 4, name |-> "main"],
    [sec |-> TEXT, type |-> 1, offset |-> 4, name |-> "main"],
    [sec |-> TEXT, type |-> 0, offset |-> -2, name |-> "main"],
    [sec |-> UNDEF, type |-> 0, offset |-> 0, name |-> "f"] }

VARIABLES
  pc,             \* linker: position in main
  objs,           \* linker: vector<ObjFile> objs (path of objs[k] is inputs[k])
  obj_text_base,  \* linker: per-object text base
  obj_data_base,  \* linker: per-object data base
  text_base,      \* linker: running text base (total text size after layout)
  data_base,      \* linker: running data base (end of data after layout)
  gsym,           \* linker: name -> GlobalSym
  final_text,     \* linker: merged text buffer
  final_data,     \* linker: merged data buffer
  rdone,          \* linker: relocations applied so far (both loops, in order)
  error,          \* linker: the exception caught by main, or NoError
  exe_symbols,    \* linker: the (name, addr) pairs of the executable
  entry,          \* linker: entry point
  out,            \* linker: bytes of the executable
  written,        \* linker: bytes written to the output path
  rc              \* linker: exit status of main (-1 while it runs)

linkVars ==
  << pc, objs, obj_text_base, obj_data_base, text_base, data_base, gsym,
     final_text, final_data, rdone, error, exe_symbols, entry, out, written,
     rc >>

VARIABLES
  iteration,      \* the order in which this build iterates an unordered_map
  run,            \* which run of the linker on the input list this is
  firstWritten    \* the executable the first run wrote

VARIABLES
  lsrc,           \* lexAll: src, the characters of the source text
  lpos,           \* lexAll: i, the 0-based position in src
  ltoks,          \* lexAll: toks
  lline,          \* lexAll: line
  lcol,           \* lexAll: col
  lpc,            \* lexAll: "lex", "done", "error" ("idle": not run)
  lerror          \* lexAll: the exception thrown, or NoError

lexVars == << lsrc, lpos, ltoks, lline, lcol, lpc, lerror >>

VARIABLES
  memory,         \* loader: vm.memory, the bytes from address 0 up to the
                  \* end of the loaded image (every byte after them is 0)
  PC,             \* loader: vm.PC
  ldpc,           \* loader: "loaded", "refused" ("idle": not run)
  ldrc            \* loader: exit status of main (-1 while it has not ended)

loadVars == << memory, PC, ldpc, ldrc >>

\* the variables that no step of the linker's main, of the parser and of
\* the macro processor changes
runVars == << iteration, run, firstWritten, lexVars, loadVars >>

VARIABLES
  src,            \* assembler: the source, a sequence of lines of lexemes
  toks,           \* Parser::toks, the token list
  i,              \* Parser::i, the token cursor (1-based here)
  current,        \* Parser::current, the current section
  instrs,         \* Parser::instrs
  data,           \* Parser::data
  symbols,        \* Parser::symbols (the symbol table of the object)
  symIndex,       \* Parser::symIndex, name -> index in symbols (0-based)
  relocs,         \* Parser::relocs
  pendingGlobals, \* Parser::pendingGlobals
  labels,         \* Parser::labels of src/vm_asm.cpp, name -> offset
  apc,            \* assembler: "lex", "parse", "parsed", "done", "error"
                  \* ("idle": not run)
  aerror,         \* assembler: the exception thrown, or NoError
  afile,          \* assembler: bytes written to the output path
  arc,            \* assembler: exit status of main (-1 while it runs)
  robj            \* the linker's parse_vmo applied to the file written

asmVars ==
  << src, toks, i, current, instrs, data, symbols, symIndex, relocs,
     pendingGlobals, labels, apc, aerror, afile, arc, robj >>

VARIABLES
  msrc,           \* macroExpand: the lines of src, each a sequence of characters
  mline,          \* macroExpand: number of lines read by getline so far
  macros,         \* macroExpand: vector<Macro> macros
  inMacro,        \* macroExpand: inMacro
  mcur,           \* macroExpand: cur, the macro being defined
  mout,           \* macroExpand: vector<string> out
  mpc,            \* macroExpand: "expand", "expanded", "error" ("idle": not run)
  merror          \* macroExpand: the exception thrown, or NoError

macroVars == << msrc, mline, macros, inMacro, mcur, mout, mpc, merror >>

vars == << linkVars, runVars, asmVars, macroVars >>

\* the orders in which a container with the key set S may be iterated
Orders(S) ==
  { p \in [1..Cardinality(S) -> S] :
      \A a, b \in 1..Cardinality(S) : p[a] = p[b] => a = b }


\* an empty unordered_map
EmptyMap == [n \in {} |-> 0]

\* total number of symbol / relocation records of the objects loaded so far
RECURSIVE TotalSyms(_, _)
TotalSyms(os, k) ==
  IF k = 0 THEN 0 ELSE TotalSyms(os, k - 1) + Len(os[k].symbols)

RECURSIVE TotalRels(_, _)
TotalRels(os, k) ==
  IF k = 0 THEN 0 ELSE TotalRels(os, k - 1) + Len(os[k].relocs)

\* the linker before its first step
LinkStart ==
  /\ pc = "load"
  /\ objs = << >>
  /\ obj_text_base = << >>
  /\ obj_data_base = << >>
  /\ text_base = 0
  /\ data_base = 0
  /\ gsym = EmptyMap
  /\ final_text = << >>
  /\ final_data = << >>
  /\ rdone = 0
  /\ error = NoError
  /\ exe_symbols = << >>
  /\ entry = 0
  /\ out = << >>
  /\ written = << >>
  /\ rc = -1

\* lexAll not running
LexIdle ==
  /\ lsrc = << >>
  /\ lpos = 0
  /\ ltoks = << >>
  /\ lline = 1
  /\ lcol = 1
  /\ lpc = "idle"
  /\ lerror = NoError

\* the loader not running
LoaderIdle ==
  /\ memory = << >>
  /\ PC = 0
  /\ ldpc = "idle"
  /\ ldrc = -1

\* the first run of the linker.  The order in which an unordered_map is
\* iterated is not specified by the language, but it is fixed by the build
\* (hash function and bucket layout of the standard library) and the
\* sequence of insertions: it is drawn once, for all runs of this build.
RunStart ==
  /\ iteration \in Orders(LinkNames)
  /\ run = 1
  /\ firstWritten = << >>
  /\ LexIdle
  /\ LoaderIdle

\* no linker run is under observation
RunIdle ==
  /\ iteration = << >>
  /\ run = 1
  /\ firstWritten = << >>
  /\ LexIdle
  /\ LoaderIdle

\* the assembler not running
AsmIdle ==
  /\ src = << >>
  /\ toks = << >>
  /\ i = 1
  /\ current = TEXT
  /\ instrs = << >>
  /\ data = << >>
  /\ symbols = << >>
  /\ symIndex = EmptyMap
  /\ relocs = << >>
  /\ pendingGlobals = {}
  /\ labels = EmptyMap
  /\ apc = "idle"
  /\ aerror = NoError
  /\ afile = << >>
  /\ arc = -1
  /\ robj = NoError

\* the macro expander not running
MacroIdle ==
  /\ msrc = << >>
  /\ mline = 0
  /\ macros = << >>
  /\ inMacro = FALSE
  /\ mcur = NoError
  /\ mout = << >>
  /\ mpc = "idle"
  /\ merror = NoError

Init ==
  /\ LinkStart
  /\ RunStart
  /\ AsmIdle
  /\ MacroIdle

\* main, load loop: parse_vmo succeeded on the next input and its records
\* are stamped with the object's index (their position in objs)
LoadObject ==
  /\ pc = "load"
  /\ Len(objs) < MaxObjs
  /\ \E sc \in SectionChoices :
       \E syms \in SeqsUpTo(SymChoices, MaxSyms - TotalSyms(objs, Len(objs))) :
         \E rels \in SeqsUpTo(RelChoices, MaxRels - TotalRels(objs, Len(objs))) :
           objs' = Append(objs, [text |-> sc[1], data |-> sc[2],
                                 symbols |-> syms, relocs |-> rels])
  /\ UNCHANGED << pc, obj_text_base, obj_data_base, text_base, data_base, gsym,
                  final_text, final_data, rdone, error, exe_symbols, entry,
                  out, written >>
  /\ UNCHANGED << rc, runVars, asmVars, macroVars >>

\* main, load loop: parse_vmo throws on the next input (a file that cannot
\* be read, is too small, has a bad magic, a section out of range or a
\* truncated table); the link is over before the layout
LoadFails ==
  /\ pc = "load"
  /\ Len(objs) < MaxObjs
  /\ pc' = "rejected"
  /\ error' = [kind |-> "Bad object file"]
  /\ UNCHANGED << objs, obj_text_base, obj_data_base, text_base, data_base,
                  gsym, final_text, final_data, rdone, exe_symbols, entry,
                  out, written >>
  /\ UNCHANGED << rc, runVars, asmVars, macroVars >>

\* main, layout: text blocks concatenated, then data blocks concatenated.
\* After the second loop data_base is the end of the last data block.
Layout ==
  /\ pc = "load"
  /\ Len(objs) >= 1
  /\ LET n == Len(objs)
         tsz == [k \in 1..n |-> Len(objs[k].text)]
         dsz == [k \in 1..n |-> Len(objs[k].data)]
         ttot == SumLen(tsz, n)
     IN /\ obj_text_base' = [k \in 1..n |-> SumLen(tsz, k - 1)]
        /\ text_base' = ttot
        /\ obj_data_base' = [k \in 1..n |-> ttot + SumLen(dsz, k - 1)]
        /\ data_base' = ttot + SumLen(dsz, n)
  /\ pc' = "gsym"
  /\ UNCHANGED << objs, gsym, final_text, final_data, rdone, error,
                  exe_symbols, entry, out, written >>
  /\ UNCHANGED << rc, runVars, asmVars, macroVars >>

RECURSIVE FlatSyms(_, _)
\* the symbol records of the first k objects in the order of the two loops,
\* each with the index of its object
FlatSyms(os, k) ==
  IF k = 0 THEN << >>
  ELSE FlatSyms(os, k - 1) \o
       [j \in 1..Len(os[k].symbols) |-> [oi |-> k, s |-> os[k].symbols[j]]]

RECURSIVE FlatRelocs(_, _)
\* the relocation records of the first k objects in the order of the two loops
FlatRelocs(os, k) ==
  IF k = 0 THEN << >>
  ELSE FlatRelocs(os, k - 1) \o
       [j \in 1..Len(os[k].relocs) |-> [oi |-> k, r |-> os[k].relocs[j]]]

\* AbsAddr with the text base used for every section
AbsAddrTextOnly(s, oi, tbase, dbase) ==
  tbase[oi] + s.value

\* absaddr of a defined symbol s of object oi
AbsAddr(s, oi, tbase, dbase) ==
  IF s.sec = TEXT THEN tbase[oi] + s.value ELSE dbase[oi] + s.value

\* gsym[name] = g
MapPut(m, name, g) ==
  [n \in (DOMAIN m) \cup {name} |-> IF n = name THEN g ELSE m[n]]

\* IsDuplicate restricted to pairs of global definitions
IsDuplicateGlobalOnly(g, s) ==
  /\ s.name \in DOMAIN g
  /\ g[s.name].flags % 2 = 1
  /\ s.flags % 2 = 1

\* gsym.count(s.name): the name is already registered (the flags of the two
\* definitions are read and not used)
IsDuplicate(g, s) ==
  s.name \in DOMAIN g

RECURSIVE GsymFold(_, _, _, _, _)
\* first pass over the symbols list[k..]: register every defined symbol,
\* throw at the first name that is already present
GsymFold(list, k, g, tbase, dbase) ==
  IF k > Len(list) THEN [ok |-> TRUE, g |-> g, err |-> NoError]
  ELSE LET s == list[k].s
           oi == list[k].oi
       IN IF s.sec = UNDEF THEN GsymFold(list, k + 1, g, tbase, dbase)
          ELSE IF IsDuplicate(g, s)
            THEN [ok |-> FALSE, g |-> g,
                  err |-> [kind |-> "Duplicate symbol", name |-> s.name,
                           first |-> g[s.name].def_obj, second |-> oi]]
            ELSE GsymFold(list, k + 1,
                          MapPut(g, s.name,
                                 [sec |-> s.sec,
                                  addr |-> AbsAddr(s, oi, tbase, dbase),
                                  flags |-> s.flags, def_obj |-> oi]),
                          tbase, dbase)

\* main, global symbol table construction
BuildGsym ==
  /\ pc = "gsym"
  /\ LET res == GsymFold(FlatSyms(objs, Len(objs)), 1, gsym,
                         obj_text_base, obj_data_base)
     IN IF res.ok
          THEN /\ gsym' = res.g
               /\ pc' = "undef"
               /\ error' = error
          ELSE /\ gsym' = res.g
               /\ pc' = "failed"
               /\ error' = res.err
  /\ UNCHANGED << objs, obj_text_base, obj_data_base, text_base, data_base,
                  final_text, final_data, rdone, exe_symbols, entry, out,
                  written >>
  /\ UNCHANGED << rc, runVars, asmVars, macroVars >>

\* ReferencedNames without the Undef symbol entries
ReferencedRelocsOnly(os) ==
  UNION { { os[k].relocs[j].name : j \in 1..Len(os[k].relocs) }
          : k \in 1..Len(os) }

\* relocation targets and Undef symbol entries of all objects
ReferencedNames(os) ==
  UNION { { os[k].relocs[j].name : j \in 1..Len(os[k].relocs) } \cup
          { os[k].symbols[j].name :
              j \in { x \in 1..Len(os[k].symbols) : os[k].symbols[x].sec = UNDEF } }
          : k \in 1..Len(os) }

\* main, undefined-reference check.  undef_list is built by iterating an
\* unordered_set, so the order of the names in the message is unspecified:
\* the message is modelled by the set of names it lists.
CheckUndefined ==
  /\ pc = "undef"
  /\ LET undef_list == { n \in ReferencedNames(objs) : n \notin DOMAIN gsym }
     IN IF undef_list # {}
          THEN /\ pc' = "failed"
               /\ error' = [kind |-> "Undefined symbols", names |-> undef_list]
               /\ final_text' = final_text
               /\ final_data' = final_data
          ELSE \* merge sections into the final buffers
               /\ pc' = "reloc"
               /\ error' = error
               /\ final_text' =
                    Concat([k \in 1..Len(objs) |-> objs[k].text], Len(objs))
               /\ final_data' =
                    Concat([k \in 1..Len(objs) |-> objs[k].data], Len(objs))
  /\ UNCHANGED << objs, obj_text_base, obj_data_base, text_base, data_base,
                  gsym, rdone, exe_symbols, entry, out, written >>
  /\ UNCHANGED << rc, runVars, asmVars, macroVars >>

\* Patch storing the most significant byte first
PatchBigEndian(buf, write_at, val) ==
  [k \in 1..Len(buf) |->
     IF k \in (write_at + 1)..(write_at + 4) THEN U32LE(val)[5 - (k - write_at)]
     ELSE buf[k]]

\* the four byte stores (*buf)[write_at + 0..3]
Patch(buf, write_at, val) ==
  [k \in 1..Len(buf) |->
     IF k \in (write_at + 1)..(write_at + 4) THEN U32LE(val)[k - write_at]
     ELSE buf[k]]

\* the four byte stores when write_at + k is formed in uint32_t: the stores
\* whose index lies in the buffer
PatchInside(buf, write_at, val) ==
  [k \in 1..Len(buf) |->
     IF \E j \in 0..3 : AddU32(write_at, j) = k - 1
       THEN U32LE(val)[(CHOOSE j \in 0..3 : AddU32(write_at, j) = k - 1) + 1]
       ELSE buf[k]]

\* the index write_at + j of some store lies outside a buffer of n bytes
StoresOutside(write_at, n) ==
  \E j \in 0..3 : AboveSize(AddU32(write_at, j), n - 1)

\* the body of the relocation loop for relocation r of object oi:
\* the exception it throws (NoError when none) and the two buffers after it.
\* write_at and write_at + 4 are uint32_t sums.  ub: the range test passed
\* and a store lies outside the buffer, which is undefined behaviour; ft
\* and fd then hold the stores that lie inside.
RelocStep(r, oi, g, ft, fd, tbase, dbase) ==
  IF r.name \notin DOMAIN g
    THEN [err |-> [kind |-> "Relocation refers to undefined symbol",
                   name |-> r.name], ft |-> ft, fd |-> fd, ub |-> FALSE]
  ELSE IF r.sec \notin {TEXT, DATA}
    THEN [err |-> [kind |-> "Unknown relocation section"], ft |-> ft,
          fd |-> fd, ub |-> FALSE]
  ELSE LET symaddr == g[r.name].addr
           buf == IF r.sec = TEXT THEN ft ELSE fd
           base == IF r.sec = TEXT THEN tbase[oi] ELSE dbase[oi]
           write_at == AddU32(base, r.offset)
       IN IF AboveSize(AddU32(write_at, 4), Len(buf))
            THEN [err |-> [kind |-> "Relocation write out of range",
                           obj |-> oi, name |-> r.name], ft |-> ft, fd |-> fd,
                  ub |-> FALSE]
          ELSE IF r.type = 0
            THEN IF StoresOutside(write_at, Len(buf))
                   THEN [err |-> NoError,
                         ft |-> IF r.sec = TEXT
                                  THEN PatchInside(ft, write_at, symaddr) ELSE ft,
                         fd |-> IF r.sec = TEXT
                                  THEN fd ELSE PatchInside(fd, write_at, symaddr),
                         ub |-> TRUE]
                   ELSE [err |-> NoError,
                         ft |-> IF r.sec = TEXT
                                  THEN Patch(ft, write_at, symaddr) ELSE ft,
                         fd |-> IF r.sec = TEXT
                                  THEN fd ELSE Patch(fd, write_at, symaddr),
                         ub |-> FALSE]
          ELSE [err |-> [kind |-> "Unsupported reloc type", type |-> r.type,
                         obj |-> oi], ft |-> ft, fd |-> fd, ub |-> FALSE]

\* main, apply relocations: one iteration of the inner loop.  A store
\* outside the buffer either ends the process with a signal (no exception,
\* no exit status of main) or lands in other memory of the process and the
\* loop goes on.
ApplyReloc ==
  /\ pc = "reloc"
  /\ rdone < Len(FlatRelocs(objs, Len(objs)))
  /\ LET it == FlatRelocs(objs, Len(objs))[rdone + 1]
         res == RelocStep(it.r, it.oi, gsym, final_text, final_data,
                          obj_text_base, obj_data_base)
     IN /\ final_text' = res.ft
        /\ final_data' = res.fd
        /\ error' = res.err
        /\ IF res.err # NoError
             THEN /\ rdone' = rdone
                  /\ pc' = "failed"
             ELSE \E signal \in {b \in BOOLEAN : b => res.ub} :
                    IF signal
                      THEN /\ rdone' = rdone
                           /\ pc' = "crashed"
                      ELSE /\ rdone' = rdone + 1
                           /\ pc' = pc
  /\ UNCHANGED << objs, obj_text_base, obj_data_base, text_base, data_base,
                  gsym, exe_symbols, entry, out, written >>
  /\ UNCHANGED << rc, runVars, asmVars, macroVars >>

\* the executable's record of one exe_symbols entry: section from the
\* address compared with data_base, flags 1
ExeSymRec(s, dbase) ==
  [sec |-> IF s[2] >= dbase THEN DATA ELSE TEXT,
   flags |-> 1, value |-> s[2], name |-> s[1]]

\* the bytes of one symbol record
SymRecBytes(rec) ==
  U16LE(rec.sec) \o U16LE(rec.flags) \o U32LE(rec.value)
    \o U16LE(Len(NameBytes(rec.name))) \o NameBytes(rec.name)

RECURSIVE SymBlob(_, _, _)
\* symblob for the first k entries of exe_symbols
SymBlob(es, k, dbase) ==
  IF k = 0 THEN << >>
  ELSE SymBlob(es, k - 1, dbase) \o SymRecBytes(ExeSymRec(es[k], dbase))

MAGIC_EXE == 1447904069
VERSION_EXE == 2
header_size == 40

\* EntryPoint that never looks up main
EntryPointZero(g) ==
  0

\* the entry point: symbol "main" if present, else 0
EntryPoint(g) ==
  IF "main" \in DOMAIN g THEN g["main"].addr ELSE 0

\* the 8-byte footer: "ENTR" and the entry address
Footer(e) ==
  << 69, 78, 84, 82 >> \o U32LE(e)

\* the bytes of the .vmc file for the merged buffers and symbol list
ExeBytes(ft, fd, es, dbase, e) ==
  LET text_off == header_size
      text_size == Len(ft)
      data_off == text_off + text_size
      data_size == Len(fd)
      symblob == SymBlob(es, Len(es), dbase)
      sym_off == data_off + data_size
      sym_count == Len(es)
      rel_off == sym_off + Len(symblob)
      rel_count == 0
  IN U32LE(MAGIC_EXE) \o U16LE(VERSION_EXE) \o U16LE(0)
       \o U32LE(text_off) \o U32LE(text_size)
       \o U32LE(data_off) \o U32LE(data_size)
       \o U32LE(sym_off) \o U32LE(sym_count)
       \o U32LE(rel_off) \o U32LE(rel_count)
       \o ft \o fd \o symblob \o Footer(e)

\* an iteration order drawn afresh at every iteration
IterationOrderAny(S) == Orders(S)

\* the order in which this build iterates an unordered_map with key set S:
\* unspecified (any order, over the builds), the same at every iteration
IterationOrder(S) ==
  { p \in Orders(S) :
      \A a, b \in DOMAIN p :
        a < b =>
          (CHOOSE x \in DOMAIN iteration : iteration[x] = p[a])
            < (CHOOSE x \in DOMAIN iteration : iteration[x] = p[b]) }

\* main, after the relocation loops: symbol list, entry point and the bytes
\* of the executable.  exe_symbols is filled by iterating the unordered_map
\* gsym, whose iteration order is unspecified.
BuildExecutable ==
  /\ pc = "reloc"
  /\ rdone = Len(FlatRelocs(objs, Len(objs)))
  /\ \E order \in IterationOrder({ n \in DOMAIN gsym : gsym[n].sec # UNDEF }) :
       /\ exe_symbols' = [k \in DOMAIN order |-> << order[k], gsym[order[k]].addr >>]
       /\ entry' = EntryPoint(gsym)
       /\ out' = ExeBytes(final_text, final_data, exe_symbols', data_base, entry')
  /\ pc' = "write"
  /\ UNCHANGED << objs, obj_text_base, obj_data_base, text_base, data_base,
                  gsym, final_text, final_data, rdone, error, written >>
  /\ UNCHANGED << rc, runVars, asmVars, macroVars >>

\* main, write file: the ofstream opens, all of out is written and main
\* returns 0; or the output path cannot be opened and main throws
WriteFile ==
  /\ pc = "write"
  /\ \E opened \in BOOLEAN :
       IF opened
         THEN /\ written' = out
              /\ pc' = "done"
              /\ rc' = 0
              /\ error' = error
         ELSE /\ written' = written
              /\ pc' = "failed"
              /\ rc' = rc
              /\ error' = [kind |-> "Cannot write output file"]
  /\ UNCHANGED << objs, obj_text_base, obj_data_base, text_base, data_base,
                  gsym, final_text, final_data, rdone, exe_symbols,
                  entry, out >>
  /\ UNCHANGED << runVars, asmVars, macroVars >>

\* a catch block that returns 0
CatchReturnsZero ==
  /\ pc \in {"failed", "rejected"}
  /\ rc = -1
  /\ rc' = 0
  /\ UNCHANGED << pc, objs, obj_text_base, obj_data_base, text_base,
                  data_base, gsym, final_text, final_data, rdone, error,
                  exe_symbols, entry, out, written >>
  /\ UNCHANGED << runVars, asmVars, macroVars >>

\* main, catch block: the error is printed and main returns 1
Catch ==
  /\ pc \in {"failed", "rejected"}
  /\ rc = -1
  /\ rc' = 1
  /\ UNCHANGED << pc, objs, obj_text_base, obj_data_base, text_base,
                  data_base, gsym, final_text, final_data, rdone, error,
                  exe_symbols, entry, out, written >>
  /\ UNCHANGED << runVars, asmVars, macroVars >>

Next ==
  \/ LoadObject
  \/ LoadFails
  \/ Layout
  \/ BuildGsym
  \/ CheckUndefined
  \/ ApplyReloc
  \/ BuildExecutable
  \/ WriteFile
  \/ Catch

Spec == Init /\ [][Next]_vars

\* the linker is run a second time on the same input list: main up to the
\* end of the layout, which loads the same objects and computes the same
\* bases; the executable of the first run is kept for comparison
RunAgain ==
  /\ pc = "done"
  /\ run = 1
  /\ run' = 2
  /\ firstWritten' = written
  /\ pc' = "gsym"
  /\ gsym' = EmptyMap
  /\ final_text' = << >>
  /\ final_data' = << >>
  /\ rdone' = 0
  /\ exe_symbols' = << >>
  /\ entry' = 0
  /\ out' = << >>
  /\ written' = << >>
  /\ rc' = -1
  /\ UNCHANGED << objs, obj_text_base, obj_data_base, text_base, data_base,
                  error, iteration, lexVars, loadVars >>
  /\ UNCHANGED << asmVars, macroVars >>

NextTwice ==
  \/ Next
  \/ RunAgain

SpecTwice == Init /\ [][NextTwice]_vars

\* ========================================================================
\* Loader (src/test5.asm, vmloader.cpp)
\* ========================================================================
\* VM::VM, the default size of vm.memory
MemSize == 65536

\* std::copy of the bytes bs to mem.begin() + dst
CopyTo(mem, bs, dst) ==
  [k \in DOMAIN mem |->
     IF (k - 1) \in dst..(dst + Len(bs) - 1) THEN bs[k - dst] ELSE mem[k]]

\* the two copies with the data placed at address 0 and the text after it
LoadImageDataFirst(buf) ==
  LET text_off == read_u32(buf, 8)
      text_size == read_u32(buf, 12)
      data_off == read_u32(buf, 16)
      data_size == read_u32(buf, 20)
      zero == [k \in 1..(text_size + data_size) |-> 0]
      text == SubSeq(buf, text_off + 1, text_off + text_size)
      dat == SubSeq(buf, data_off + 1, data_off + data_size)
  IN CopyTo(CopyTo(zero, dat, 0), text, data_size)

\* main, create VM: the memory from address 0 to text_size + data_size
\* after the two copies
LoadImage(buf) ==
  LET text_off == read_u32(buf, 8)
      text_size == read_u32(buf, 12)
      data_off == read_u32(buf, 16)
      data_size == read_u32(buf, 20)
      zero == [k \in 1..(text_size + data_size) |-> 0]
      text == SubSeq(buf, text_off + 1, text_off + text_size)
      dat == SubSeq(buf, data_off + 1, data_off + data_size)
  IN CopyTo(CopyTo(zero, text, 0), dat, text_size)

\* the copies of main read inside buf and write inside vm.memory
CopiesInside(buf) ==
  /\ Len(buf) >= 24 + 8
  /\ SliceInside(read_u32(buf, 8), read_u32(buf, 12), Len(buf))
  /\ SliceInside(read_u32(buf, 16), read_u32(buf, 20), Len(buf))
  /\ read_u32(buf, 12) + read_u32(buf, 20) <= MemSize

\* main of the loader on the executable the linker wrote: the magic is
\* checked, text and data are copied into the memory and the entry point
\* of the footer becomes the program counter.  The loader is run on files
\* whose sections lie in the file and fit in the memory, as every file the
\* linker writes here does.
LoadProgram ==
  /\ pc = "done"
  /\ ldpc = "idle"
  /\ CopiesInside(written)
  /\ IF read_u32(written, 0) # MAGIC_EXE
       THEN /\ ldpc' = "refused"
            /\ ldrc' = 1
            /\ UNCHANGED << memory, PC >>
       ELSE /\ memory' = LoadImage(written)
            /\ PC' = read_u32(written, (Len(written) - 8) + 4)
            /\ ldpc' = "loaded"
            /\ ldrc' = 0
  /\ UNCHANGED << linkVars, iteration, run, firstWritten, lexVars, asmVars,
                  macroVars >>

\* the linker, then the loader on the file it wrote
LoadNext ==
  \/ Next
  \/ LoadProgram

SpecLoad == Init /\ [][LoadNext]_vars

\* ========================================================================
\* Assembler
\* ========================================================================
\* A source is a sequence of lines, a line a sequence of lexemes separated
\* by blanks.  A lexeme has a spelling s and a shape: "dir" (a dot and an
\* identifier), "lab" (the identifier s and a colon), "word" (letters and
\* digits starting with a letter), "num" (decimal digits), "comma".
Dir(s) == [shape |-> "dir", s |-> s]

Lab(s) == [shape |-> "lab", s |-> s]

Wd(s) == [shape |-> "word", s |-> s]

Num(s) == [shape |-> "num", s |-> s]

Comma == [shape |-> "comma", s |-> ","]

LBrack == [shape |-> "lbrack", s |-> "["]

RBrack == [shape |-> "rbrack", s |-> "]"]

\* a character that no rule of TOKEN_RULES matches, such as @
Bad(s) == [shape |-> "bad", s |-> s]

\* the symbol names used in sources
AsmNames == {"main", "r1"}

\* the lines a source is made of
AsmLines ==
  { << Lab(n) >> : n \in AsmNames } \cup
  { << Dir(".global"), Wd(n) >> : n \in AsmNames } \cup
  { << Wd("jmp"), Wd(n) >> : n \in AsmNames } \cup
  { << Dir(".word"), Wd(n) >> : n \in AsmNames } \cup
  { << Dir(".text") >>, << Dir(".data") >>,
    << Wd("HALT") >>,
    << Wd("beq"), Wd("r1"), Comma, Wd("r1"), Comma, Wd("main") >>,
    << Dir(".word"), Num("7") >>,
    << Dir(".byte"), Num("1"), Comma, Num("2") >>,
    << Num("5") >>,
    << Bad("@") >>,
    << >> }

\* a mnemonic written in upper case
Upper(m) ==
  CASE m = "ldi" -> "LDI" [] m = "mov" -> "MOV" [] m = "add" -> "ADD"
    [] m = "sub" -> "SUB" [] m = "and" -> "AND" [] m = "or" -> "OR"
    [] m = "xor" -> "XOR" [] m = "lw" -> "LW" [] m = "sw" -> "SW"
    [] m = "jmp" -> "JMP" [] m = "beq" -> "BEQ" [] m = "bne" -> "BNE"
    [] m = "call" -> "CALL" [] m = "ret" -> "RET" [] m = "halt" -> "HALT"

\* register operands, integer operands and label-or-integer operands
InstrRegs == { Wd("r1"), Wd("x31") }

InstrInts == { Num("7"), Num("-1") }

InstrTargets == InstrInts \cup { Wd("main") }

\* the instruction lines with the mnemonic spelled w, of the operand form
\* of the mnemonic m
InstrLinesOf(m, w) ==
  CASE m = "ldi" ->
         { << Wd(w), a, Comma, b >> : a \in InstrRegs, b \in InstrInts }
    [] m = "mov" ->
         { << Wd(w), a, Comma, b >> : a \in InstrRegs, b \in InstrRegs }
    [] m \in {"add", "sub", "and", "or", "xor"} ->
         { << Wd(w), a, Comma, b, Comma, c >> :
             a \in InstrRegs, b \in InstrRegs, c \in InstrRegs }
    [] m \in {"lw", "sw"} ->
         { << Wd(w), a, Comma, LBrack, b, RBrack >> :
             a \in InstrRegs, b \in InstrRegs }
    [] m \in {"jmp", "call"} ->
         { << Wd(w), t >> : t \in InstrTargets }
    [] m \in {"beq", "bne"} ->
         { << Wd(w), a, Comma, b, Comma, t >> :
             a \in InstrRegs, b \in InstrRegs, t \in InstrTargets }
    [] OTHER -> { << Wd(w) >> }

\* the words the REGISTER rule matches: r or x and a number 0..31
RegisterWords == {"r0", "r1", "r31", "x0", "x1", "x31"}

\* TOKEN_RULES tried in order at the start of a lexeme: DIRECTIVE, LABEL,
\* REGISTER, (HEX, BIN,) INT, IDENT, COMMA
lexKind(w) ==
  IF w.shape = "dir" THEN "DIRECTIVE"
  ELSE IF w.shape = "lab" THEN "LABEL"
  ELSE IF w.shape = "word" /\ w.s \in RegisterWords THEN "REGISTER"
  ELSE IF w.shape = "num" THEN "INT"
  ELSE IF w.shape = "word" THEN "IDENT"
  ELSE IF w.shape = "comma" THEN "COMMA"
  ELSE IF w.shape = "lbrack" THEN "LBRACK"
  ELSE IF w.shape = "rbrack" THEN "RBRACK"
  ELSE "UNKNOWN"

\* the tokens of one line; the value of a LABEL token is written without
\* its final colon, which Parser::parse strips
LexLine(line) ==
  [k \in DOMAIN line |-> [kind |-> lexKind(line[k]), value |-> line[k].s]]

RECURSIVE LexLines(_, _, _)
\* the tokens of the first k lines; every line but the last is followed by
\* a newline character, the last one only when the text ends with one.  A
\* run of newline characters is one match of the NEWLINE rule: a newline
\* right after a NEWLINE token adds no token.
LexLines(lines, k, endsWithNewline) ==
  IF k = 0 THEN << >>
  ELSE LET before == LexLines(lines, k - 1, TRUE) \o LexLine(lines[k])
       IN IF ~endsWithNewline THEN before
          ELSE IF before # << >> /\ before[Len(before)].kind = "NEWLINE"
            THEN before
          ELSE Append(before, [kind |-> "NEWLINE", value |-> "nl"])

\* lexAll: the token list, terminated by EOF_TOK
lexAll(lines, endsWithNewline) ==
  LexLines(lines, Len(lines), endsWithNewline)
    \o << [kind |-> "EOF", value |-> ""] >>

\* std::tolower over a spelling
Lower(s) ==
  CASE s = "HALT" -> "halt"
    [] s = "JMP" -> "jmp"
    [] s = "LDI" -> "ldi" [] s = "MOV" -> "mov" [] s = "ADD" -> "add"
    [] s = "SUB" -> "sub" [] s = "AND" -> "and" [] s = "OR" -> "or"
    [] s = "XOR" -> "xor" [] s = "LW" -> "lw" [] s = "SW" -> "sw"
    [] s = "BEQ" -> "beq" [] s = "BNE" -> "bne" [] s = "CALL" -> "call"
    [] s = "RET" -> "ret"
    [] s = ".GLOBAL" -> ".global"
    [] s = ".DATA" -> ".data"
    [] OTHER -> s

\* MNEMONIC and enum class Op
Mnemonics ==
  { "ldi", "mov", "add", "sub", "and", "or", "xor", "lw", "sw", "jmp",
    "beq", "bne", "call", "ret", "halt" }

Opcode(m) ==
  CASE m = "ldi" -> 1 [] m = "mov" -> 2 [] m = "add" -> 3 [] m = "sub" -> 4
    [] m = "and" -> 5 [] m = "or" -> 6 [] m = "xor" -> 7 [] m = "lw" -> 8
    [] m = "sw" -> 9 [] m = "jmp" -> 10 [] m = "beq" -> 11 [] m = "bne" -> 12
    [] m = "call" -> 13 [] m = "ret" -> 14 [] m = "halt" -> 15

\* stoi of the digits after the leading letter of a register word
RegNumber(s) ==
  CASE s \in {"r0", "x0"} -> 0
    [] s \in {"r1", "x1"} -> 1
    [] s \in {"r31", "x31"} -> 31
    [] OTHER -> 0

\* stol of a decimal literal
IntValue(s) ==
  CASE s = "0" -> 0 [] s = "1" -> 1 [] s = "2" -> 2 [] s = "5" -> 5
    [] s = "7" -> 7 [] s = "-1" -> -1 [] OTHER -> 0

\* ------------------------------------------------------------------------
\* Parser helpers: each returns the cursor after it and, when it threw,
\* ok = FALSE with the cursor where it stood
\* ------------------------------------------------------------------------
\* Parser::at
at(tk, p, k) == tk[p].kind = k

\* Parser::maybe: the cursor after an optional token of kind k
maybe(tk, p, k) == IF at(tk, p, k) THEN p + 1 ELSE p

\* Parser::eat
eat(tk, p, k) ==
  IF at(tk, p, k) THEN [ok |-> TRUE, i |-> p + 1, err |-> NoError]
  ELSE [ok |-> FALSE, i |-> p,
        err |-> [kind |-> "Expected", want |-> k, got |-> tk[p].kind]]

\* Parser::parseReg with the largest register number its range test admits
parseReg(tk, p, maxreg) ==
  IF ~at(tk, p, "REGISTER")
    THEN [ok |-> FALSE, i |-> p, v |-> 0,
          err |-> [kind |-> "Expected", want |-> "REGISTER", got |-> tk[p].kind]]
  ELSE IF RegNumber(tk[p].value) > maxreg
    THEN [ok |-> FALSE, i |-> p, v |-> 0,
          err |-> [kind |-> "register out of range"]]
  ELSE [ok |-> TRUE, i |-> p + 1, v |-> RegNumber(tk[p].value), err |-> NoError]

\* Parser::parseInt
parseInt(tk, p) ==
  IF tk[p].kind \in {"HEX", "BIN", "INT"}
    THEN [ok |-> TRUE, i |-> p + 1, v |-> IntValue(tk[p].value), err |-> NoError]
  ELSE [ok |-> FALSE, i |-> p, v |-> 0, err |-> [kind |-> "Expected int"]]

\* Parser::parseLabelRef: lbl is << >> for nullopt, << name >> otherwise
parseLabelRef(tk, p) ==
  IF at(tk, p, "IDENT")
    THEN [ok |-> TRUE, i |-> p + 1, v |-> 0, lbl |-> << tk[p].value >>,
          err |-> NoError]
  ELSE LET r == parseInt(tk, p)
       IN [ok |-> r.ok, i |-> r.i, v |-> r.v, lbl |-> << >>, err |-> r.err]

\* Parser::expectComma
expectComma(tk, p) ==
  IF at(tk, p, "COMMA") THEN [ok |-> TRUE, i |-> p + 1, err |-> NoError]
  ELSE [ok |-> FALSE, i |-> p, err |-> [kind |-> "Expected ','"]]

\* the first exception of a sequence of parse steps
FirstError(steps) ==
  IF \A k \in DOMAIN steps : steps[k].ok THEN NoError
  ELSE steps[CHOOSE k \in DOMAIN steps :
               ~steps[k].ok /\ \A j \in 1..(k - 1) : steps[j].ok].err

\* Parser::parseInstr up to the push of the instruction: the cursor is at
\* the mnemonic (an IDENT token)
parseInstr(tk, p, maxreg) ==
  LET mnem == Lower(tk[p].value)
      q == p + 1
  IN IF mnem \notin Mnemonics
       THEN [ok |-> FALSE, i |-> q, err |-> [kind |-> "Unknown mnemonic"]]
     ELSE LET op == Opcode(mnem)
              Ins(rd, rs1, rs2, imm, lbl) ==
                [op |-> op, rd |-> rd, rs1 |-> rs1, rs2 |-> rs2, imm |-> imm,
                 label_ref |-> lbl]
              Res(steps, ins) ==
                [ok |-> \A k \in DOMAIN steps : steps[k].ok,
                 i |-> steps[Len(steps)].i, ins |-> ins,
                 err |-> FirstError(steps)]
          IN CASE mnem = "ldi" ->
                    LET a == parseReg(tk, q, maxreg)
                        b == expectComma(tk, a.i)
                        c == parseInt(tk, b.i)
                    IN Res(<< a, b, c >>, Ins(a.v, 0, 0, c.v, << >>))
               [] mnem = "mov" ->
                    LET a == parseReg(tk, q, maxreg)
                        b == expectComma(tk, a.i)
                        c == parseReg(tk, b.i, maxreg)
                    IN Res(<< a, b, c >>, Ins(a.v, c.v, 0, 0, << >>))
               [] mnem \in {"add", "sub", "and", "or", "xor"} ->
                    LET a == parseReg(tk, q, maxreg)
                        b == expectComma(tk, a.i)
                        c == parseReg(tk, b.i, maxreg)
                        d == expectComma(tk, c.i)
                        e == parseReg(tk, d.i, maxreg)
                    IN Res(<< a, b, c, d, e >>, Ins(a.v, c.v, e.v, 0, << >>))
               [] mnem = "lw" ->
                    LET a == parseReg(tk, q, maxreg)
                        b == expectComma(tk, a.i)
                        c == eat(tk, b.i, "LBRACK")
                        d == parseReg(tk, c.i, maxreg)
                        e == eat(tk, d.i, "RBRACK")
                    IN Res(<< a, b, c, d, e >>, Ins(a.v, d.v, 0, 0, << >>))
               [] mnem = "sw" ->
                    LET a == parseReg(tk, q, maxreg)
                        b == expectComma(tk, a.i)
                        c == eat(tk, b.i, "LBRACK")
                        d == parseReg(tk, c.i, maxreg)
                        e == eat(tk, d.i, "RBRACK")
                    IN Res(<< a, b, c, d, e >>, Ins(0, d.v, a.v, 0, << >>))
               [] mnem \in {"jmp", "call"} ->
                    LET a == parseLabelRef(tk, q)
                    IN Res(<< a >>, Ins(0, 0, 0, a.v, a.lbl))
               [] mnem \in {"beq", "bne"} ->
                    LET a == parseReg(tk, q, maxreg)
                        b == expectComma(tk, a.i)
                        c == parseReg(tk, b.i, maxreg)
                        d == expectComma(tk, c.i)
                        e == parseLabelRef(tk, d.i)
                    IN Res(<< a, b, c, d, e >>, Ins(0, a.v, c.v, e.v, e.lbl))
               [] OTHER ->
                    [ok |-> TRUE, i |-> q, ins |-> Ins(0, 0, 0, 0, << >>),
                     err |-> NoError]

\* the offset of the immediate field of instruction idx: idx*8 + 4
TextRelocOffset(idx) == idx * 8 + 4

\* the relocation offset src/vm_asm.cpp records for instruction idx: idx*8
OldTextRelocOffset(idx) == idx * 8

\* LabelOffset counting the statement that follows the label
LabelOffsetAfter(cur, ins, dat) ==
  IF cur = TEXT THEN (Len(ins) + 1) * 8 ELSE Len(dat) + 1

\* the value of a label: the size of the current section so far
LabelOffset(cur, ins, dat) ==
  IF cur = TEXT THEN Len(ins) * 8 ELSE Len(dat)

\* Parser::defineSymbol on the symbol state st = [symbols, symIndex,
\* pendingGlobals]
defineSymbol(st, name, sec, value) ==
  IF name \in DOMAIN st.symIndex
    THEN [ok |-> FALSE, st |-> st,
          err |-> [kind |-> "Duplicate symbol", name |-> name]]
  ELSE [ok |-> TRUE,
        st |-> [symbols |->
                  Append(st.symbols,
                         [name |-> name, sec |-> sec, value |-> value,
                          global |-> name \in st.pendingGlobals]),
                symIndex |-> MapPut(st.symIndex, name, Len(st.symbols)),
                pendingGlobals |-> st.pendingGlobals \ {name}],
        err |-> NoError]

\* Parser::markGlobal
markGlobal(st, name) ==
  IF name \in DOMAIN st.symIndex
    THEN [st EXCEPT !.symbols[st.symIndex[name] + 1].global = TRUE]
  ELSE [st EXCEPT !.pendingGlobals = @ \cup {name}]

RECURSIVE GlobalLoop(_, _, _)
\* handleDirective, the loop of .global: identifiers are marked, commas are
\* eaten, any other token ends the loop
GlobalLoop(tk, p, st) ==
  IF at(tk, p, "NEWLINE") \/ at(tk, p, "EOF") THEN [i |-> p, st |-> st]
  ELSE IF at(tk, p, "IDENT") THEN GlobalLoop(tk, p + 1, markGlobal(st, tk[p].value))
  ELSE IF at(tk, p, "COMMA") THEN GlobalLoop(tk, p + 1, st)
  ELSE [i |-> p, st |-> st]

\* the rest-of-line loop leaving the cursor where it stands
SkipLineStays(tk, p) == p

RECURSIVE SkipLine(_, _)
\* while(!at(NEWLINE) && !at(EOF_TOK)) i++
SkipLine(tk, p) ==
  IF at(tk, p, "NEWLINE") \/ at(tk, p, "EOF") THEN p ELSE SkipLine(tk, p + 1)

\* the relocation offset taken after the placeholder was pushed
DataRelocOffsetAfter(dat) == Len(dat) + 4

\* handleDirective, .word with a label: ofs = data.size() before the push
DataRelocOffset(dat) == Len(dat)

RECURSIVE ByteLoop(_, _, _)
\* handleDirective, the do-while loop of .byte
ByteLoop(tk, p, dat) ==
  IF at(tk, p, "IDENT")
    THEN [ok |-> FALSE, i |-> p + 1, data |-> dat,
          err |-> [kind |-> ".byte does not support relocations"]]
  ELSE LET v == parseInt(tk, p)
       IN IF ~v.ok THEN [ok |-> FALSE, i |-> p, data |-> dat, err |-> v.err]
          ELSE IF at(tk, v.i, "COMMA")
            THEN ByteLoop(tk, v.i + 1, Append(dat, v.v % 256))
          ELSE [ok |-> TRUE, i |-> v.i, data |-> Append(dat, v.v % 256),
                err |-> NoError]

\* Parser::handleDirective with the cursor at the DIRECTIVE token: the
\* parser state after it, ok = FALSE when it threw
handleDirective(tk, p, cur, dat, rel, st) ==
  LET low == Lower(tk[p].value)
      q == p + 1
      Ret(c, pos, d, r, s2) ==
        [ok |-> TRUE, i |-> pos, current |-> c, data |-> d, relocs |-> r,
         st |-> s2, err |-> NoError]
      Throw(e) ==
        [ok |-> FALSE, i |-> q, current |-> cur, data |-> dat, relocs |-> rel,
         st |-> st, err |-> e]
  IN IF low = ".text" THEN Ret(TEXT, maybe(tk, q, "NEWLINE"), dat, rel, st)
     ELSE IF low = ".data" THEN Ret(DATA, maybe(tk, q, "NEWLINE"), dat, rel, st)
     ELSE IF low = ".global"
       THEN LET g == GlobalLoop(tk, q, st)
            IN Ret(cur, maybe(tk, g.i, "NEWLINE"), dat, rel, g.st)
     ELSE IF cur # DATA
       THEN Ret(cur, maybe(tk, SkipLine(tk, q), "NEWLINE"), dat, rel, st)
     ELSE IF low = ".byte"
       THEN LET b == ByteLoop(tk, q, dat)
            IN IF b.ok THEN Ret(cur, maybe(tk, b.i, "NEWLINE"), b.data, rel, st)
               ELSE Throw(b.err)
     ELSE IF low = ".word"
       THEN IF at(tk, q, "IDENT")
              THEN Ret(cur, maybe(tk, q + 1, "NEWLINE"),
                       dat \o << 0, 0, 0, 0 >>,
                       Append(rel, [sec |-> DATA, offset |-> DataRelocOffset(dat),
                                    type |-> 0, name |-> tk[q].value]),
                       st)
            ELSE LET v == parseInt(tk, q)
                 IN IF v.ok
                      THEN Ret(cur, maybe(tk, v.i, "NEWLINE"),
                               dat \o U32LE(v.v), rel, st)
                    ELSE Throw(v.err)
     ELSE Ret(cur, maybe(tk, SkipLine(tk, q), "NEWLINE"), dat, rel, st)

\* EncodeInstr with the immediate before the opcode and registers
EncodeInstrImmFirst(ins) ==
  U32LE(ins.imm) \o << ins.op, ins.rd, ins.rs1, ins.rs2 >>

\* assemble, encode .text: the 8 bytes of one instruction
EncodeInstr(ins) ==
  << ins.op, ins.rd, ins.rs1, ins.rs2 >> \o U32LE(ins.imm)

RECURSIVE EncodeText(_, _)
\* assemble, encode .text: the first k instructions
EncodeText(ins, k) ==
  IF k = 0 THEN << >> ELSE EncodeText(ins, k - 1) \o EncodeInstr(ins[k])

\* assemble, write_sym: one record of the symbol table
write_sym(sy) ==
  U16LE(sy.sec) \o U16LE(IF sy.global THEN 1 ELSE 0) \o U32LE(sy.value)
    \o U16LE(Len(NameBytes(sy.name))) \o NameBytes(sy.name)

RECURSIVE SymTabBytes(_, _)
SymTabBytes(syms, k) ==
  IF k = 0 THEN << >> ELSE SymTabBytes(syms, k - 1) \o write_sym(syms[k])

\* write_rel with the type written before the section
write_rel_type_first(r) ==
  U16LE(r.type) \o U16LE(r.sec) \o U32LE(r.offset)
    \o U16LE(Len(NameBytes(r.name))) \o NameBytes(r.name)

\* assemble, write_rel: one record of the relocation table
write_rel(r) ==
  U16LE(r.sec) \o U16LE(r.type) \o U32LE(r.offset)
    \o U16LE(Len(NameBytes(r.name))) \o NameBytes(r.name)

RECURSIVE RelTabBytes(_, _)
RelTabBytes(rels, k) ==
  IF k = 0 THEN << >> ELSE RelTabBytes(rels, k - 1) \o write_rel(rels[k])

\* the version the assembler writes
VERSION == 2

\* assemble after the parse: the bytes of the object file
assemble(ins, dat, syms, rels) ==
  LET text == EncodeText(ins, Len(ins))
      text_off == header_size
      data_off == text_off + Len(text)
      symblob == SymTabBytes(syms, Len(syms))
      sym_off == data_off + Len(dat)
      relblob == RelTabBytes(rels, Len(rels))
      rel_off == sym_off + Len(symblob)
  IN U32LE(MAGIC) \o U16LE(VERSION) \o U16LE(0)
       \o U32LE(text_off) \o U32LE(Len(text))
       \o U32LE(data_off) \o U32LE(Len(dat))
       \o U32LE(sym_off) \o U32LE(Len(syms))
       \o U32LE(rel_off) \o U32LE(Len(rels))
       \o text \o dat \o symblob \o relblob

\* the parser's symbol state as one record
SymState ==
  [symbols |-> symbols, symIndex |-> symIndex, pendingGlobals |-> pendingGlobals]

\* every instruction line, with the mnemonic in lower and in upper case
InstrLines ==
  UNION { InstrLinesOf(m, m) \cup InstrLinesOf(m, Upper(m)) : m \in Mnemonics }

\* the sources given to the assembler: the sources of at most MaxLines
\* lines of AsmLines, and the sources of one instruction line
Programs ==
  SeqsUpTo(AsmLines, MaxLines) \cup { << l >> : l \in InstrLines }

\* register numbers Parser::parseReg accepts: 0..31
MaxReg == 31

\* assemble of src/unnamed/part_000 up to the construction of the Parser:
\* macroExpand passes the lines of a source without macros through and
\* joins them with newlines (none after the last line), lexAll yields the
\* tokens
AsmInit ==
  /\ LinkStart
  /\ RunIdle
  /\ MacroIdle
  /\ afile = << >>
  /\ arc = -1
  /\ robj = NoError
  /\ src \in Programs
  /\ toks = << >>
  /\ i = 1
  /\ current = TEXT
  /\ instrs = << >>
  /\ data = << >>
  /\ symbols = << >>
  /\ symIndex = EmptyMap
  /\ relocs = << >>
  /\ pendingGlobals = {}
  /\ labels = EmptyMap
  /\ apc = "lex"
  /\ aerror = NoError

\* lexAll throws at a character that no rule matches
HasUnknownToken(lines) ==
  \E l \in DOMAIN lines : \E k \in DOMAIN lines[l] : lines[l][k].shape = "bad"

\* assemble: lexAll over the expanded source
LexSource ==
  /\ apc = "lex"
  /\ IF HasUnknownToken(src)
       THEN /\ apc' = "error"
            /\ aerror' = [kind |-> "Unknown token"]
            /\ toks' = toks
       ELSE /\ apc' = "parse"
            /\ aerror' = aerror
            /\ toks' = lexAll(src, FALSE)
  /\ UNCHANGED << src, i, current, instrs, data, symbols, symIndex, relocs,
                  pendingGlobals, labels >>
  /\ UNCHANGED << afile, arc, robj, linkVars, runVars, macroVars >>

\* Parser::parse, main loop: a NEWLINE at the start of a statement
ParseNewline ==
  /\ apc = "parse"
  /\ at(toks, i, "NEWLINE")
  /\ i' = i + 1
  /\ UNCHANGED << src, toks, current, instrs, data, symbols, symIndex, relocs,
                  pendingGlobals, labels, apc, aerror >>
  /\ UNCHANGED << afile, arc, robj, linkVars, runVars, macroVars >>

\* Parser::parse, main loop: LABEL branch
ParseLabel ==
  /\ apc = "parse"
  /\ at(toks, i, "LABEL")
  /\ LET name == toks[i].value
         ofs == LabelOffset(current, instrs, data)
         d == defineSymbol(SymState, name, current, ofs)
     IN IF d.ok
          THEN /\ symbols' = d.st.symbols
               /\ symIndex' = d.st.symIndex
               /\ pendingGlobals' = d.st.pendingGlobals
               /\ i' = maybe(toks, i + 1, "NEWLINE")
               /\ UNCHANGED << apc, aerror >>
          ELSE /\ apc' = "error"
               /\ aerror' = d.err
               /\ i' = i + 1
               /\ UNCHANGED << symbols, symIndex, pendingGlobals >>
  /\ UNCHANGED << src, toks, current, instrs, data, relocs, labels >>
  /\ UNCHANGED << afile, arc, robj, linkVars, runVars, macroVars >>

\* Parser::parse, main loop: DIRECTIVE branch (the whole of handleDirective)
ParseDirective ==
  /\ apc = "parse"
  /\ at(toks, i, "DIRECTIVE")
  /\ LET h == handleDirective(toks, i, current, data, relocs, SymState)
     IN /\ i' = h.i
        /\ current' = h.current
        /\ data' = h.data
        /\ relocs' = h.relocs
        /\ symbols' = h.st.symbols
        /\ symIndex' = h.st.symIndex
        /\ pendingGlobals' = h.st.pendingGlobals
        /\ apc' = IF h.ok THEN apc ELSE "error"
        /\ aerror' = h.err
  /\ UNCHANGED << src, toks, instrs, labels >>
  /\ UNCHANGED << afile, arc, robj, linkVars, runVars, macroVars >>

\* Parser::parse, main loop: an identifier in Text (the whole of parseInstr)
ParseInstruction ==
  /\ apc = "parse"
  /\ current = TEXT
  /\ at(toks, i, "IDENT")
  /\ LET r == parseInstr(toks, i, MaxReg)
         idx == Len(instrs)
     IN IF r.ok
          THEN /\ instrs' = Append(instrs, r.ins)
               /\ relocs' =
                    IF r.ins.label_ref # << >>
                      THEN Append(relocs, [sec |-> TEXT,
                                           offset |-> TextRelocOffset(idx),
                                           type |-> 0,
                                           name |-> r.ins.label_ref[1]])
                    ELSE relocs
               /\ i' = maybe(toks, r.i, "NEWLINE")
               /\ UNCHANGED << apc, aerror >>
          ELSE /\ apc' = "error"
               /\ aerror' = r.err
               /\ i' = r.i
               /\ UNCHANGED << instrs, relocs >>
  /\ UNCHANGED << src, toks, current, data, symbols, symIndex, pendingGlobals,
                  labels >>
  /\ UNCHANGED << afile, arc, robj, linkVars, runVars, macroVars >>

\* the main loop without its final i++: the cursor stays at the token
SkipTokenStays ==
  /\ apc = "parse"
  /\ toks[i].kind \notin {"EOF", "NEWLINE", "LABEL", "DIRECTIVE"}
  /\ ~(current = TEXT /\ at(toks, i, "IDENT"))
  /\ UNCHANGED << src, toks, i, current, instrs, data, symbols, symIndex,
                  relocs, pendingGlobals, labels, apc, aerror >>
  /\ UNCHANGED << afile, arc, robj, linkVars, runVars, macroVars >>

\* Parser::parse, main loop: any other token is skipped
SkipToken ==
  /\ apc = "parse"
  /\ toks[i].kind \notin {"EOF", "NEWLINE", "LABEL", "DIRECTIVE"}
  /\ ~(current = TEXT /\ at(toks, i, "IDENT"))
  /\ i' = i + 1
  /\ UNCHANGED << src, toks, current, instrs, data, symbols, symIndex, relocs,
                  pendingGlobals, labels, apc, aerror >>
  /\ UNCHANGED << afile, arc, robj, linkVars, runVars, macroVars >>

\* Parser::parse at EOF_TOK: the pending globals that were never defined
\* become Undef symbols.  pendingGlobals is an unordered_set, so the order
\* in which they are appended is unspecified.
ParseEnd ==
  /\ apc = "parse"
  /\ at(toks, i, "EOF")
  /\ \E order \in Orders(pendingGlobals \ DOMAIN symIndex) :
       /\ symbols' = symbols \o
            [k \in DOMAIN order |->
               [name |-> order[k], sec |-> UNDEF, value |-> 0, global |-> TRUE]]
       /\ symIndex' =
            [n \in (DOMAIN symIndex) \cup (pendingGlobals \ DOMAIN symIndex) |->
               IF n \in DOMAIN symIndex THEN symIndex[n]
               ELSE Len(symbols) + (CHOOSE k \in DOMAIN order : order[k] = n) - 1]
  /\ pendingGlobals' = {}
  /\ apc' = "parsed"
  /\ UNCHANGED << src, toks, i, current, instrs, data, relocs, labels, aerror >>
  /\ UNCHANGED << afile, arc, robj, linkVars, runVars, macroVars >>

\* assemble after the parse and main's write_file: the object is encoded,
\* the output path is opened, all bytes are written and main returns 0; or
\* the path cannot be opened and write_file throws
WriteObject ==
  /\ apc = "parsed"
  /\ \E opened \in BOOLEAN :
       IF opened
         THEN /\ afile' = assemble(instrs, data, symbols, relocs)
              /\ apc' = "done"
              /\ arc' = 0
              /\ aerror' = aerror
         ELSE /\ afile' = afile
              /\ apc' = "error"
              /\ arc' = arc
              /\ aerror' = [kind |-> "Cannot write file"]
  /\ UNCHANGED << src, toks, i, current, instrs, data, symbols, symIndex,
                  relocs, pendingGlobals, labels, robj >>
  /\ UNCHANGED << linkVars, runVars, macroVars >>

\* main, catch block: the error is printed and main returns 1
AsmCatch ==
  /\ apc = "error"
  /\ arc = -1
  /\ arc' = 1
  /\ UNCHANGED << src, toks, i, current, instrs, data, symbols, symIndex,
                  relocs, pendingGlobals, labels, apc, aerror, afile, robj >>
  /\ UNCHANGED << linkVars, runVars, macroVars >>

\* the linker's parse_vmo reads the file the assembler wrote, or a file
\* it is given
ReadBack ==
  /\ apc \in {"done", "given"}
  /\ robj = NoError
  /\ LET res == parse_vmo(afile)
     IN robj' \in (IF res.ub THEN OutsideReadOutcomes ELSE {res})
  /\ UNCHANGED << src, toks, i, current, instrs, data, symbols, symIndex,
                  relocs, pendingGlobals, labels, apc, aerror, afile, arc >>
  /\ UNCHANGED << linkVars, runVars, macroVars >>

AsmNext ==
  \/ LexSource
  \/ ParseNewline
  \/ ParseLabel
  \/ ParseDirective
  \/ ParseInstruction
  \/ SkipToken
  \/ ParseEnd
  \/ WriteObject
  \/ AsmCatch
  \/ ReadBack

SpecAsm == AsmInit /\ [][AsmNext]_vars

\* the number of lines of the sources that are run to their end
MaxRunLines == 2

\* the assembler started on a source of at most MaxRunLines lines or of
\* one instruction line
AsmRunInit == AsmInit /\ Len(src) <= MaxRunLines

\* the assembler runs to its end: main is one thread, and each of its
\* steps is taken when it is possible
SpecAsmRun == AsmRunInit /\ [][AsmNext]_vars /\ WF_vars(AsmNext)

\* ------------------------------------------------------------------------
\* Object files the linker is given
\* ------------------------------------------------------------------------
\* the number of fields of a well-formed object file that are overwritten
MaxOverrides == 2

\* a well-formed object: one instruction, one data word, the symbol main
\* and a relocation naming it
GoodObject ==
  assemble(<< [op |-> 10, rd |-> 0, rs1 |-> 0, rs2 |-> 0, imm |-> 0,
               label_ref |-> << "main" >>] >>,
           << 7, 0, 0, 0 >>,
           << [name |-> "main", sec |-> TEXT, value |-> 0, global |-> TRUE] >>,
           << [sec |-> TEXT, offset |-> 4, type |-> 0, name |-> "main"] >>)

\* the bytes raw with the bytes bs stored at the 0-based offset off
Overwrite(raw, off, bs) ==
  [k \in 1..Len(raw) |->
     IF k \in (off + 1)..(off + Len(bs)) THEN bs[k - off] ELSE raw[k]]

\* header fields set to a 32-bit value, a name length set to a 16-bit
\* value, or the file cut to a length
Overrides ==
  { [at |-> f, bytes |-> U32LE(v), cut |-> 0] :
      f \in {8, 12, 16, 20, 24, 28, 32, 36},
      v \in {0, 8, 32, 40, 1000, -1, -8, -16} }
  \cup
  { [at |-> f, bytes |-> U16LE(v), cut |-> 0] :
      f \in {60, 74}, v \in {0, 5, 65535} }
  \cup
  { [at |-> 0, bytes |-> << >>, cut |-> n] : n \in {39, 40, 60, 77} }

RECURSIVE Overridden(_, _, _)
\* raw after the first k overrides of os
Overridden(raw, os, k) ==
  IF k = 0 THEN raw
  ELSE LET prev == Overridden(raw, os, k - 1)
           o == os[k]
       IN IF o.cut > 0
            THEN (IF o.cut < Len(prev) THEN SubSeq(prev, 1, o.cut) ELSE prev)
          ELSE Overwrite(prev, o.at, o.bytes)

\* the files given to the reader
GivenFiles ==
  { Overridden(GoodObject, os, Len(os)) : os \in SeqsUpTo(Overrides, MaxOverrides) }

ReadInit ==
  /\ LinkStart
  /\ RunIdle
  /\ MacroIdle
  /\ src = << >>
  /\ toks = << >>
  /\ i = 1
  /\ current = TEXT
  /\ instrs = << >>
  /\ data = << >>
  /\ symbols = << >>
  /\ symIndex = EmptyMap
  /\ relocs = << >>
  /\ pendingGlobals = {}
  /\ labels = EmptyMap
  /\ apc = "given"
  /\ aerror = NoError
  /\ afile \in GivenFiles
  /\ arc = -1
  /\ robj = NoError

SpecRead == ReadInit /\ [][ReadBack]_vars

\* ------------------------------------------------------------------------
\* The earlier assembler, src/vm_asm.cpp: one section, labels in a map
\* ------------------------------------------------------------------------
\* register numbers its parseReg accepts: 0..255
OldMaxReg == 255

\* assemble of src/vm_asm.cpp up to the construction of the Parser: the file
\* contents are lexed as read (every line ends with a newline)
OldAsmInit ==
  /\ LinkStart
  /\ RunIdle
  /\ MacroIdle
  /\ afile = << >>
  /\ arc = -1
  /\ robj = NoError
  /\ src \in Programs
  /\ toks = << >>
  /\ i = 1
  /\ current = TEXT
  /\ instrs = << >>
  /\ data = << >>
  /\ symbols = << >>
  /\ symIndex = EmptyMap
  /\ relocs = << >>
  /\ pendingGlobals = {}
  /\ labels = EmptyMap
  /\ apc = "lex"
  /\ aerror = NoError

\* assemble of src/vm_asm.cpp: lexAll over the file contents
OldLexSource ==
  /\ apc = "lex"
  /\ IF HasUnknownToken(src)
       THEN /\ apc' = "error"
            /\ aerror' = [kind |-> "Unknown token"]
            /\ toks' = toks
       ELSE /\ apc' = "parse"
            /\ aerror' = aerror
            /\ toks' = lexAll(src, TRUE)
  /\ UNCHANGED << src, i, current, instrs, data, symbols, symIndex, relocs,
                  pendingGlobals, labels >>
  /\ UNCHANGED << afile, arc, robj, linkVars, runVars, macroVars >>

\* Parser::parse of src/vm_asm.cpp: a NEWLINE at the start of a statement
OldParseNewline ==
  /\ apc = "parse"
  /\ at(toks, i, "NEWLINE")
  /\ i' = i + 1
  /\ UNCHANGED << src, toks, current, instrs, data, symbols, symIndex, relocs,
                  pendingGlobals, labels, apc, aerror >>
  /\ UNCHANGED << afile, arc, robj, linkVars, runVars, macroVars >>

\* Parser::parse of src/vm_asm.cpp, LABEL branch: labels[name] is assigned
OldParseLabel ==
  /\ apc = "parse"
  /\ at(toks, i, "LABEL")
  /\ labels' = MapPut(labels, toks[i].value, Len(instrs) * 8)
  /\ i' = maybe(toks, i + 1, "NEWLINE")
  /\ UNCHANGED << src, toks, current, instrs, data, symbols, symIndex, relocs,
                  pendingGlobals, apc, aerror >>
  /\ UNCHANGED << afile, arc, robj, linkVars, runVars, macroVars >>

\* Parser::parse of src/vm_asm.cpp, DIRECTIVE branch: the line is skipped
OldParseDirective ==
  /\ apc = "parse"
  /\ at(toks, i, "DIRECTIVE")
  /\ i' = maybe(toks, SkipLine(toks, i + 1), "NEWLINE")
  /\ UNCHANGED << src, toks, current, instrs, data, symbols, symIndex, relocs,
                  pendingGlobals, labels, apc, aerror >>
  /\ UNCHANGED << afile, arc, robj, linkVars, runVars, macroVars >>

\* Parser::parse of src/vm_asm.cpp, IDENT branch (the whole of parseInstr).
\* Its relocation list holds (offset, name) pairs, written to the object
\* with type 0; the format has one section, so each is a Text relocation.
OldParseInstruction ==
  /\ apc = "parse"
  /\ at(toks, i, "IDENT")
  /\ LET r == parseInstr(toks, i, OldMaxReg)
         idx == Len(instrs)
     IN IF r.ok
          THEN /\ instrs' = Append(instrs, r.ins)
               /\ relocs' =
                    IF r.ins.label_ref # << >>
                      THEN Append(relocs, [sec |-> TEXT,
                                           offset |-> OldTextRelocOffset(idx),
                                           type |-> 0,
                                           name |-> r.ins.label_ref[1]])
                    ELSE relocs
               /\ i' = maybe(toks, r.i, "NEWLINE")
               /\ UNCHANGED << apc, aerror >>
          ELSE /\ apc' = "error"
               /\ aerror' = r.err
               /\ i' = r.i
               /\ UNCHANGED << instrs, relocs >>
  /\ UNCHANGED << src, toks, current, data, symbols, symIndex, pendingGlobals,
                  labels >>
  /\ UNCHANGED << afile, arc, robj, linkVars, runVars, macroVars >>

\* Parser::parse of src/vm_asm.cpp: fallback skip
OldSkipToken ==
  /\ apc = "parse"
  /\ toks[i].kind \notin {"EOF", "NEWLINE", "LABEL", "DIRECTIVE", "IDENT"}
  /\ i' = i + 1
  /\ UNCHANGED << src, toks, current, instrs, data, symbols, symIndex, relocs,
                  pendingGlobals, labels, apc, aerror >>
  /\ UNCHANGED << afile, arc, robj, linkVars, runVars, macroVars >>

\* Parser::parse of src/vm_asm.cpp at EOF_TOK, and the symbol table assemble
\* writes: one record per entry of the unordered_map labels, in its
\* (unspecified) iteration order
OldParseEnd ==
  /\ apc = "parse"
  /\ at(toks, i, "EOF")
  /\ \E order \in Orders(DOMAIN labels) :
       symbols' = [k \in DOMAIN order |->
                     [name |-> order[k], sec |-> TEXT,
                      value |-> labels[order[k]], global |-> FALSE]]
  /\ apc' = "parsed"
  /\ UNCHANGED << src, toks, i, current, instrs, data, symIndex, relocs,
                  pendingGlobals, labels, aerror >>
  /\ UNCHANGED << afile, arc, robj, linkVars, runVars, macroVars >>

\* the version src/vm_asm.cpp writes
OldVERSION == 1

\* the size of the header src/vm_asm.cpp writes, its text_off
OldHeaderSize == 16

RECURSIVE OldSymTabBytes(_, _)
\* assemble of src/vm_asm.cpp, symbol table: offset, name length, name
OldSymTabBytes(syms, k) ==
  IF k = 0 THEN << >>
  ELSE OldSymTabBytes(syms, k - 1) \o U32LE(syms[k].value)
         \o U16LE(Len(NameBytes(syms[k].name))) \o NameBytes(syms[k].name)

RECURSIVE OldRelTabBytes(_, _)
\* assemble of src/vm_asm.cpp, relocation table: offset, type 0, name length,
\* name
OldRelTabBytes(rels, k) ==
  IF k = 0 THEN << >>
  ELSE OldRelTabBytes(rels, k - 1) \o U32LE(rels[k].offset) \o U16LE(0)
         \o U16LE(Len(NameBytes(rels[k].name))) \o NameBytes(rels[k].name)

\* assemble of src/vm_asm.cpp after the parse: the bytes of the object file
OldAssemble(ins, syms, rels) ==
  LET code == EncodeText(ins, Len(ins))
  IN U32LE(MAGIC) \o U16LE(OldVERSION) \o U16LE(0)
       \o U32LE(OldHeaderSize) \o U32LE(Len(code))
       \o code \o OldSymTabBytes(syms, Len(syms))
       \o OldRelTabBytes(rels, Len(rels))

\* main of src/vm_asm.cpp: write_file of the assembled object, return 0; or
\* the path cannot be opened and write_file throws
OldWriteObject ==
  /\ apc = "parsed"
  /\ \E opened \in BOOLEAN :
       IF opened
         THEN /\ afile' = OldAssemble(instrs, symbols, relocs)
              /\ apc' = "done"
              /\ arc' = 0
              /\ aerror' = aerror
         ELSE /\ afile' = afile
              /\ apc' = "error"
              /\ arc' = arc
              /\ aerror' = [kind |-> "Cannot write file"]
  /\ UNCHANGED << src, toks, i, current, instrs, data, symbols, symIndex,
                  relocs, pendingGlobals, labels, robj >>
  /\ UNCHANGED << linkVars, runVars, macroVars >>

\* main of src/vm_asm.cpp, catch block: the error is printed, main returns 1
OldAsmCatch ==
  /\ apc = "error"
  /\ arc = -1
  /\ arc' = 1
  /\ UNCHANGED << src, toks, i, current, instrs, data, symbols, symIndex,
                  relocs, pendingGlobals, labels, apc, aerror, afile, robj >>
  /\ UNCHANGED << linkVars, runVars, macroVars >>

OldAsmNext ==
  \/ OldLexSource
  \/ OldParseNewline
  \/ OldParseLabel
  \/ OldParseDirective
  \/ OldParseInstruction
  \/ OldSkipToken
  \/ OldParseEnd
  \/ OldWriteObject
  \/ OldAsmCatch
  \/ ReadBack

SpecAsmOld == OldAsmInit /\ [][OldAsmNext]_vars

\* ========================================================================
\* Macro processor (src/unnamed/part_000, macroExpand)
\* ========================================================================
\* A line of source text is the sequence of its characters.

\* the number of chunks of a source text
MaxChunks == 4

DotMacro == << ".", "m", "a", "c", "r", "o" >>

DotEndm == << ".", "e", "n", "d", "m" >>

\* the chunks source texts are made of: single lines and whole definitions
MacroChunks ==
  { << DotMacro \o << " ", "M", " ", "2" >> >>,
    << DotEndm >>,
    << << "a", " ", "$", "1", " ", "$", "2" >> >>,
    << << "M", " ", "$", "2", ",", "x" >> >>,
    << << " ", "M", " ", "x" >> >>,
    << DotMacro >>,
    << DotMacro \o << " ", "M", " ", "1" >>, << "a", " ", "$", "1" >>, DotEndm >>,
    << DotMacro \o << " ", "M", " ", "1" >>, << "b", " ", "$", "1" >>, DotEndm >>,
    << << ".", "M", "A", "C", "R", "O", " ", "M", " ", "1" >>,
       << "c", " ", "$", "1" >>, << ".", "E", "N", "D", "M" >> >> }

RECURSIVE JoinChunks(_, _)
\* the lines of the first k chunks of a text
JoinChunks(chunks, k) ==
  IF k = 0 THEN << >> ELSE JoinChunks(chunks, k - 1) \o chunks[k]

\* the source texts: getline splits them into lines
MacroSources ==
  { JoinChunks(c, Len(c)) : c \in SeqsUpTo(MacroChunks, MaxChunks) }

IsSpace(c) == c \in { " ", "\t", "\r", "\n" }

RECURSIVE DropSpaces(_)
\* find_first_not_of: the text without its leading white space
DropSpaces(s) ==
  IF s # << >> /\ IsSpace(Head(s)) THEN DropSpaces(Tail(s)) ELSE s

RECURSIVE DropSpacesEnd(_)
\* find_last_not_of: the text without its trailing white space
DropSpacesEnd(s) ==
  IF s # << >> /\ IsSpace(s[Len(s)])
    THEN DropSpacesEnd(SubSeq(s, 1, Len(s) - 1))
    ELSE s

trim(s) == DropSpacesEnd(DropSpaces(s))

\* s.rfind(p, 0) == 0: s starts with p
StartsWith(s, p) == Len(s) >= Len(p) /\ SubSeq(s, 1, Len(p)) = p

\* s.substr(k)
Substr(s, k) == SubSeq(s, k + 1, Len(s))

RECURSIVE FirstWord(_)
\* operator>> on a string: the leading run of characters that are not space
FirstWord(s) ==
  IF s = << >> \/ IsSpace(Head(s)) THEN << >>
  ELSE << Head(s) >> \o FirstWord(Tail(s))

DigitValue(c) ==
  CASE c = "0" -> 0 [] c = "1" -> 1 [] c = "2" -> 2 [] c = "3" -> 3
    [] c = "4" -> 4 [] c = "5" -> 5 [] c = "6" -> 6 [] c = "7" -> 7
    [] c = "8" -> 8 [] c = "9" -> 9 [] OTHER -> -1

RECURSIVE ReadDigits(_, _)
\* operator>> on an int: the value of the leading digits, 0 when there are
\* none
ReadDigits(s, acc) ==
  IF s = << >> \/ DigitValue(Head(s)) < 0 THEN acc
  ELSE ReadDigits(Tail(s), acc * 10 + DigitValue(Head(s)))

\* ls >> name >> arity on the text after ".macro"
MacroHeader(s) ==
  LET t == DropSpaces(Substr(s, 6))
      name == FirstWord(t)
      u == DropSpaces(Substr(t, Len(name)))
  IN [name |-> name, arity |-> ReadDigits(u, 0)]

RECURSIVE splitCSVFrom(_, _, _, _, _)
\* splitCSV: the loop over the characters from position k
splitCSVFrom(s, k, acc, paren, res) ==
  IF k > Len(s)
    THEN IF trim(acc) # << >> THEN Append(res, trim(acc)) ELSE res
    ELSE IF s[k] = "," /\ paren = 0
      THEN splitCSVFrom(s, k + 1, << >>, paren, Append(res, trim(acc)))
      ELSE splitCSVFrom(s, k + 1, Append(acc, s[k]),
                        CASE s[k] = "[" -> paren + 1
                          [] s[k] = "]" -> paren - 1
                          [] OTHER -> paren,
                        res)

splitCSV(s) == splitCSVFrom(s, 1, << >>, 0, << >>)

\* to_string of a number below 100
to_string(n) ==
  LET D(d) == CASE d = 0 -> "0" [] d = 1 -> "1" [] d = 2 -> "2" [] d = 3 -> "3"
                [] d = 4 -> "4" [] d = 5 -> "5" [] d = 6 -> "6" [] d = 7 -> "7"
                [] d = 8 -> "8" [] d = 9 -> "9"
  IN IF n < 10 THEN << D(n) >> ELSE << D(n \div 10), D(n % 10) >>

\* string::find: the first position at or after pos (from 1) where key
\* occurs, 0 when there is none
Find(s, key, pos) ==
  LET hits == { q \in pos..(Len(s) - Len(key) + 1) :
                  SubSeq(s, q, q + Len(key) - 1) = key }
  IN IF hits = {} THEN 0 ELSE CHOOSE q \in hits : \A r \in hits : q <= r

RECURSIVE ReplaceKey(_, _, _, _)
\* the while loop of one key: every occurrence from pos on is replaced and
\* the search resumes after the inserted text
ReplaceKey(s, key, arg, pos) ==
  LET q == Find(s, key, pos)
  IN IF q = 0 THEN s
     ELSE ReplaceKey(SubSeq(s, 1, q - 1) \o arg \o Substr(s, q + Len(key) - 1),
                     key, arg, q + Len(arg))

RECURSIVE Substitute(_, _, _)
\* positional substitution: the keys $1..$k in turn, each over the whole
\* line as the keys before it left it
Substitute(bodyLine, args, k) ==
  IF k = 0 THEN bodyLine
  ELSE ReplaceKey(Substitute(bodyLine, args, k - 1),
                  << "$" >> \o to_string(k), args[k], 1)

\* the name of macro m starts the line s
Invokes(s, m) ==
  \/ s = m.name
  \/ StartsWith(s, m.name \o << " " >>)
  \/ StartsWith(s, m.name \o << "\t" >>)

\* the macro the loop over macros stops at: the first of the name, 0 when
\* no macro matches
Match(s) ==
  LET hits == { k \in DOMAIN macros : Invokes(s, macros[k]) }
  IN IF hits = {} THEN 0 ELSE CHOOSE k \in hits : \A r \in hits : k <= r

\* the arguments of the invocation s of macro m
Arguments(s, m) ==
  LET argsPart == IF Len(s) > Len(m.name)
                    THEN trim(Substr(s, Len(m.name))) ELSE << >>
  IN IF argsPart = << >> THEN << >> ELSE splitCSV(argsPart)

\* the lines one invocation puts out
Expansion(m, args) ==
  [k \in DOMAIN m.body |-> Substitute(m.body[k], args, m.arity)]

MacroInit ==
  /\ LinkStart
  /\ RunIdle
  /\ AsmIdle
  /\ msrc \in MacroSources
  /\ mline = 1
  /\ macros = << >>
  /\ inMacro = FALSE
  /\ mcur = NoError
  /\ mout = << >>
  /\ mpc = "expand"
  /\ merror = NoError

\* the line getline reads, trimmed
CurrentLine == trim(msrc[mline])

AtLine == mpc = "expand" /\ mline <= Len(msrc)

\* a line that opens a definition
MacroOpen ==
  /\ AtLine
  /\ ~inMacro
  /\ StartsWith(CurrentLine, DotMacro)
  /\ LET h == MacroHeader(CurrentLine)
     IN IF h.name = << >>
          THEN /\ mpc' = "error"
               /\ merror' = [kind |-> ".macro missing name"]
               /\ UNCHANGED << mline, inMacro, mcur >>
          ELSE /\ inMacro' = TRUE
               /\ mcur' = [name |-> h.name, arity |-> h.arity, body |-> << >>]
               /\ mline' = mline + 1
               /\ UNCHANGED << mpc, merror >>
  /\ UNCHANGED << msrc, macros, mout >>
  /\ UNCHANGED << linkVars, runVars, asmVars >>

\* a line that closes the open definition
MacroClose ==
  /\ AtLine
  /\ inMacro
  /\ StartsWith(CurrentLine, DotEndm)
  /\ macros' = Append(macros, mcur)
  /\ inMacro' = FALSE
  /\ mline' = mline + 1
  /\ UNCHANGED << msrc, mcur, mout, mpc, merror >>
  /\ UNCHANGED << linkVars, runVars, asmVars >>

\* any other line inside a definition is kept as a line of the body
MacroBody ==
  /\ AtLine
  /\ inMacro
  /\ ~StartsWith(CurrentLine, DotEndm)
  /\ mcur' = [mcur EXCEPT !.body = Append(@, msrc[mline])]
  /\ mline' = mline + 1
  /\ UNCHANGED << msrc, macros, inMacro, mout, mpc, merror >>
  /\ UNCHANGED << linkVars, runVars, asmVars >>

\* a line outside a definition: the expansion of the first macro whose name
\* starts it, or the line itself
MacroLine ==
  /\ AtLine
  /\ ~inMacro
  /\ ~StartsWith(CurrentLine, DotMacro)
  /\ LET k == Match(CurrentLine)
     IN IF k = 0
          THEN /\ mout' = Append(mout, msrc[mline])
               /\ mline' = mline + 1
               /\ UNCHANGED << mpc, merror >>
          ELSE LET args == Arguments(CurrentLine, macros[k])
               IN IF Len(args) # macros[k].arity
                    THEN /\ mpc' = "error"
                         /\ merror' = [kind |-> "Macro expects args"]
                         /\ UNCHANGED << mout, mline >>
                    ELSE /\ mout' = mout \o Expansion(macros[k], args)
                         /\ mline' = mline + 1
                         /\ UNCHANGED << mpc, merror >>
  /\ UNCHANGED << msrc, macros, inMacro, mcur >>
  /\ UNCHANGED << linkVars, runVars, asmVars >>

\* the end of the text
MacroEnd ==
  /\ mpc = "expand"
  /\ mline > Len(msrc)
  /\ IF inMacro
       THEN /\ mpc' = "error"
            /\ merror' = [kind |-> "Unterminated .macro"]
       ELSE /\ mpc' = "done"
            /\ merror' = merror
  /\ UNCHANGED << msrc, mline, macros, inMacro, mcur, mout >>
  /\ UNCHANGED << linkVars, runVars, asmVars >>

\* main, catch block: an error of macroExpand is printed and main returns 1
MacroCatch ==
  /\ mpc = "error"
  /\ arc = -1
  /\ arc' = 1
  /\ UNCHANGED << src, toks, i, current, instrs, data, symbols, symIndex,
                  relocs, pendingGlobals, labels, apc, aerror, afile, robj >>
  /\ UNCHANGED << linkVars, runVars, macroVars >>

MacroNext ==
  \/ MacroOpen
  \/ MacroClose
  \/ MacroBody
  \/ MacroLine
  \/ MacroEnd
  \/ MacroCatch

SpecMacro == MacroInit /\ [][MacroNext]_vars

\* ========================================================================
\* Lexer (src/unnamed/part_000, lexAll) over the characters of a source
\* ========================================================================
\* the length of the source texts given to the lexer
MaxChars == 4

\* the characters of the source texts: a letter, a digit, a blank, the
\* start of a comment, a newline, a comma, a character no rule matches, a
\* colon, a dot and a double quote
LexChars == {"a", "1", " ", ";", "\n", ",", "@", ":", ".", "\""}

\* [A-Za-z_]
Letters ==
  { "a", "b", "c", "d", "e", "f", "g", "h", "i", "j", "k", "l", "m", "n",
    "o", "p", "q", "r", "s", "t", "u", "v", "w", "x", "y", "z",
    "A", "B", "C", "D", "E", "F", "G", "H", "I", "J", "K", "L", "M", "N",
    "O", "P", "Q", "R", "S", "T", "U", "V", "W", "X", "Y", "Z", "_" }

\* \d
Digits == {"0", "1", "2", "3", "4", "5", "6", "7", "8", "9"}

\* [A-Za-z0-9_], the word characters of \b
AlNum == Letters \cup Digits

\* [0-9A-Fa-f]
HexDigits ==
  Digits \cup {"a", "b", "c", "d", "e", "f", "A", "B", "C", "D", "E", "F"}

\* the characters that . does not match
LineTerminators == {"\n", "\r"}

\* the character at the 1-based position q, "" past the end
CharAt(s, q) == IF q \in DOMAIN s THEN s[q] ELSE ""

RECURSIVE RunOf(_, _, _)
\* the number of characters of the set S from position q on: S*
RunOf(s, q, S) ==
  IF q \in DOMAIN s /\ s[q] \in S THEN 1 + RunOf(s, q + 1, S) ELSE 0

RECURSIVE RunNotOf(_, _, _)
\* the number of characters outside the set S from position q on
RunNotOf(s, q, S) ==
  IF q \in DOMAIN s /\ s[q] \notin S THEN 1 + RunNotOf(s, q + 1, S) ELSE 0

RECURSIVE StringEnd(_, _)
\* the position of the quote that closes ([^"\\]|\\.)*" read from q on,
\* 0 when there is none
StringEnd(s, q) ==
  IF q \notin DOMAIN s THEN 0
  ELSE IF s[q] = "\"" THEN q
  ELSE IF s[q] = "\\"
    THEN (IF (q + 1) \in DOMAIN s /\ s[q + 1] \notin LineTerminators
            THEN StringEnd(s, q + 2) ELSE 0)
  ELSE StringEnd(s, q + 1)

\* \b after a word character: the end of the text or a non-word character
WordEnd(s, q) == CharAt(s, q) \notin AlNum

\* TOKEN_RULES, the kinds in the order in which they are tried
TOKEN_RULES ==
  << "WS", "COMMENT", "DIRECTIVE", "LABEL", "REGISTER", "HEX", "BIN", "INT",
     "IDENT", "COMMA", "LBRACK", "RBRACK", "PLUS", "STRING", "NEWLINE" >>

\* regex_search(begin, end, m, rule.re, match_continuous): the length of
\* the match of the rule of kind k at position q, 0 when it does not match
MatchLen(k, s, q) ==
  LET c == CharAt(s, q)
      word == IF c \in Letters THEN 1 + RunOf(s, q + 1, AlNum) ELSE 0
  IN CASE k = "WS" -> RunOf(s, q, {" ", "\t"})
       [] k = "COMMENT" ->
            IF c = ";" THEN 1 + RunNotOf(s, q + 1, LineTerminators) ELSE 0
       [] k = "DIRECTIVE" ->
            IF c = "." /\ CharAt(s, q + 1) \in Letters
              THEN 2 + RunOf(s, q + 2, AlNum) ELSE 0
       [] k = "LABEL" ->
            IF word > 0 /\ CharAt(s, q + word) = ":" THEN word + 1 ELSE 0
       [] k = "REGISTER" ->
            IF c \notin {"r", "x"} THEN 0
            ELSE IF CharAt(s, q + 1) \in Digits /\ WordEnd(s, q + 2) THEN 2
            ELSE IF /\ CharAt(s, q + 1) \in {"1", "2"}
                    /\ CharAt(s, q + 2) \in Digits
                    /\ WordEnd(s, q + 3) THEN 3
            ELSE IF /\ CharAt(s, q + 1) = "3"
                    /\ CharAt(s, q + 2) \in {"0", "1"}
                    /\ WordEnd(s, q + 3) THEN 3
            ELSE 0
       [] k = "HEX" ->
            IF c = "0" /\ CharAt(s, q + 1) = "x" /\ RunOf(s, q + 2, HexDigits) > 0
              THEN 2 + RunOf(s, q + 2, HexDigits) ELSE 0
       [] k = "BIN" ->
            IF c = "0" /\ CharAt(s, q + 1) = "b" /\ RunOf(s, q + 2, {"0", "1"}) > 0
              THEN 2 + RunOf(s, q + 2, {"0", "1"}) ELSE 0
       [] k = "INT" ->
            LET m == IF c = "-" THEN 1 ELSE 0
                d == RunOf(s, q + m, Digits)
            IN IF d > 0 THEN m + d ELSE 0
       [] k = "IDENT" -> word
       [] k = "COMMA" -> IF c = "," THEN 1 ELSE 0
       [] k = "LBRACK" -> IF c = "[" THEN 1 ELSE 0
       [] k = "RBRACK" -> IF c = "]" THEN 1 ELSE 0
       [] k = "PLUS" -> IF c = "+" THEN 1 ELSE 0
       [] k = "STRING" ->
            IF c = "\"" /\ StringEnd(s, q + 1) > 0
              THEN StringEnd(s, q + 1) - q + 1 ELSE 0
       [] k = "NEWLINE" -> RunOf(s, q, {"\n"})

\* the index of the first rule that matches at q, 0 when none does
FirstRule(s, q) ==
  IF \A k \in DOMAIN TOKEN_RULES : MatchLen(TOKEN_RULES[k], s, q) = 0 THEN 0
  ELSE CHOOSE k \in DOMAIN TOKEN_RULES :
         /\ MatchLen(TOKEN_RULES[k], s, q) > 0
         /\ \A j \in 1..(k - 1) : MatchLen(TOKEN_RULES[j], s, q) = 0

\* count(text.begin(), text.end(), '\n')
CountNewlines(text) == Cardinality({ k \in DOMAIN text : text[k] = "\n" })

\* lexAll before its first step
LexInit ==
  /\ LinkStart
  /\ AsmIdle
  /\ MacroIdle
  /\ iteration = << >>
  /\ run = 1
  /\ firstWritten = << >>
  /\ LoaderIdle
  /\ lsrc \in SeqsUpTo(LexChars, MaxChars)
  /\ lpos = 0
  /\ ltoks = << >>
  /\ lline = 1
  /\ lcol = 1
  /\ lpc = "lex"
  /\ lerror = NoError

\* lexAll, one iteration of the while loop in which a rule matches
LexMatch ==
  /\ lpc = "lex"
  /\ lpos < Len(lsrc)
  /\ FirstRule(lsrc, lpos + 1) # 0
  /\ LET kind == TOKEN_RULES[FirstRule(lsrc, lpos + 1)]
         n == MatchLen(kind, lsrc, lpos + 1)
         text == SubSeq(lsrc, lpos + 1, lpos + n)
     IN /\ IF kind = "NEWLINE"
             THEN /\ ltoks' = Append(ltoks, [kind |-> "NEWLINE", value |-> << "\n" >>,
                                             line |-> lline, col |-> lcol])
                  /\ lline' = lline + CountNewlines(text)
                  /\ lcol' = 1
           ELSE IF kind \in {"WS", "COMMENT"}
             THEN /\ lcol' = lcol + n
                  /\ UNCHANGED << ltoks, lline >>
           ELSE /\ ltoks' = Append(ltoks, [kind |-> kind, value |-> text,
                                           line |-> lline, col |-> lcol])
                /\ lcol' = lcol + n
                /\ lline' = lline
        /\ lpos' = lpos + n
  /\ UNCHANGED << lsrc, lpc, lerror >>
  /\ UNCHANGED << linkVars, iteration, run, firstWritten, loadVars, asmVars,
                  macroVars >>

\* lexAll, an iteration in which no rule matches: Unknown token at line:col
LexUnknown ==
  /\ lpc = "lex"
  /\ lpos < Len(lsrc)
  /\ FirstRule(lsrc, lpos + 1) = 0
  /\ lpc' = "error"
  /\ lerror' = [kind |-> "Unknown token", line |-> lline, col |-> lcol]
  /\ UNCHANGED << lsrc, lpos, ltoks, lline, lcol >>
  /\ UNCHANGED << linkVars, iteration, run, firstWritten, loadVars, asmVars,
                  macroVars >>

\* lexAll after the loop: EOF_TOK is pushed and the tokens are returned
LexEnd ==
  /\ lpc = "lex"
  /\ lpos >= Len(lsrc)
  /\ ltoks' = Append(ltoks, [kind |-> "EOF", value |-> << >>,
                             line |-> lline, col |-> lcol])
  /\ lpc' = "done"
  /\ UNCHANGED << lsrc, lpos, lline, lcol, lerror >>
  /\ UNCHANGED << linkVars, iteration, run, firstWritten, loadVars, asmVars,
                  macroVars >>

LexNext ==
  \/ LexMatch
  \/ LexUnknown
  \/ LexEnd

SpecLex == LexInit /\ [][LexNext]_vars

\* ========================================================================
\* One run of either tool
\* ========================================================================
\* a run of the linker, of the assembler on a source without macros, or of
\* the assembler's macro processor on a source text
ToolsInit == Init \/ AsmInit \/ MacroInit

ToolsNext ==
  \/ (apc = "idle" /\ mpc = "idle" /\ Next)
  \/ AsmNext
  \/ MacroNext

SpecTools == ToolsInit /\ [][ToolsNext]_vars

\* ========================================================================
\* Properties of the linker (specification Spec)
\* ========================================================================
\* the relocations of all objects in the order in which main applies them
AllRelocs == FlatRelocs(objs, Len(objs))

\* the symbol records of all objects in the order in which main visits them
AllSyms == FlatSyms(objs, Len(objs))

\* the definitions (section other than Undef) of the name n, in visiting order
Definers(n) ==
  SelectSeq(AllSyms, LAMBDA it : it.s.sec # UNDEF /\ it.s.name = n)

\* the names some object defines
DefinedNames ==
  { AllSyms[k].s.name : k \in { x \in DOMAIN AllSyms : AllSyms[x].s.sec # UNDEF } }

\* the merged buffer a relocation item patches and the offset of its field
RelocBuffer(it) == IF it.r.sec = TEXT THEN final_text ELSE final_data

RelocBase(it) ==
  IF it.r.sec = TEXT THEN obj_text_base[it.oi] ELSE obj_data_base[it.oi]

RelocField(it) == AddU32(RelocBase(it), it.r.offset)

\* the four bytes of the field lie in the merged buffer
FieldInBuffer(it) ==
  RelocField(it) >= 0 /\ RelocField(it) + 4 <= Len(RelocBuffer(it))

\* the field of relocation k holds the address of the symbol it names
FieldHoldsAddress(k) ==
  LET it == AllRelocs[k]
  IN /\ FieldInBuffer(it)
     /\ read_u32(RelocBuffer(it), RelocField(it)) = gsym[it.r.name].addr

\* the indexes the four stores of a relocation item go to
FieldIndexes(it) == { AddU32(RelocField(it), x) : x \in 0..3 }

\* relocation j, applied after relocation k, writes into k's field
OverwrittenBy(k, j) ==
  /\ j > k
  /\ AllRelocs[j].r.sec = AllRelocs[k].r.sec
  /\ FieldIndexes(AllRelocs[j]) \cap FieldIndexes(AllRelocs[k]) # {}

\* C1 as stated: after a successful link the field of EVERY relocation of
\* every input object decodes as the little-endian u32 equal to the absolute
\* address of the symbol the relocation names.
C1_EveryFieldHoldsAddress ==
  pc = "done" => \A k \in DOMAIN AllRelocs : FieldHoldsAddress(k)

\* C1 amended: after a successful link the field of every relocation that
\* lies in the merged buffer and that no relocation applied later writes
\* into decodes as the little-endian u32 equal to the absolute address of
\* the symbol the relocation names.
C1_LastWriterHoldsAddress ==
  pc = "done" =>
    \A k \in DOMAIN AllRelocs :
      ( /\ FieldInBuffer(AllRelocs[k])
        /\ \A j \in DOMAIN AllRelocs : ~OverwrittenBy(k, j) )
      => FieldHoldsAddress(k)

\* a successful link that patched a non-zero address into a field
C1_Witness ==
  /\ pc = "done"
  /\ \E k \in DOMAIN AllRelocs :
       /\ \A j \in DOMAIN AllRelocs : ~OverwrittenBy(k, j)
       /\ gsym[AllRelocs[k].r.name].addr > 0
       /\ FieldHoldsAddress(k)

\* C2: text bases start at 0 and advance by each object's text size, data
\* bases start at the total text size and advance by each object's data
\* size; the merged buffers have the summed lengths and hold the objects'
\* sections in input order (as merged, before any relocation is applied);
\* every defined symbol's absolute address is the base of its section for
\* its defining object plus its value.
C2_Layout ==
  LET n == Len(objs)
      ttot == obj_text_base[n] + Len(objs[n].text)
      dend == obj_data_base[n] + Len(objs[n].data)
  IN /\ pc \in {"gsym", "undef", "reloc", "write", "done", "failed"} =>
          /\ obj_text_base[1] = 0
          /\ \A k \in 1..(n - 1) :
               obj_text_base[k + 1] = obj_text_base[k] + Len(objs[k].text)
          /\ obj_data_base[1] = ttot
          /\ \A k \in 1..(n - 1) :
               obj_data_base[k + 1] = obj_data_base[k] + Len(objs[k].data)
     /\ pc \in {"reloc", "write", "done"} =>
          /\ Len(final_text) = ttot
          /\ Len(final_data) = dend - ttot
          /\ rdone = 0 =>
               \A k \in 1..n :
                 /\ \A q \in 1..Len(objs[k].text) :
                      final_text[obj_text_base[k] + q] = objs[k].text[q]
                 /\ \A q \in 1..Len(objs[k].data) :
                      final_data[(obj_data_base[k] - ttot) + q] = objs[k].data[q]
     /\ pc \in {"undef", "reloc", "write", "done"} =>
          /\ DOMAIN gsym = DefinedNames
          /\ \A nm \in DOMAIN gsym :
               LET d == Definers(nm)[1]
               IN gsym[nm].addr =
                    (IF d.s.sec = TEXT THEN obj_text_base[d.oi]
                     ELSE obj_data_base[d.oi]) + d.s.value

\* two objects with text and data merged, and a Data symbol of the second
C2_Witness ==
  /\ pc = "reloc"
  /\ rdone = 0
  /\ Len(objs) = 2
  /\ \A k \in 1..2 : Len(objs[k].text) > 0 /\ Len(objs[k].data) > 0
  /\ \E nm \in DOMAIN gsym : gsym[nm].def_obj = 2 /\ gsym[nm].sec = DATA

\* the symbol table of the written executable, read back with the object
\* reader's record loop
WrittenSymTab ==
  ReadSyms(written, read_u32(written, 24), read_u32(written, 28))

\* C3: the executable's symbol table contains every defined symbol of the
\* global table exactly once with the global flag set, and a record's
\* section is Data exactly when its address is at least the total merged
\* text size, Text otherwise.
C3_ExeSymbolSections ==
  pc = "done" =>
    LET tab == WrittenSymTab.symbols
    IN /\ WrittenSymTab.ok
       /\ \A nm \in DOMAIN gsym :
            Cardinality({ k \in DOMAIN tab : tab[k].name = nm }) = 1
       /\ \A k \in DOMAIN tab :
            /\ tab[k].name \in DOMAIN gsym
            /\ tab[k].value = gsym[tab[k].name].addr
            /\ tab[k].flags = 1
            /\ tab[k].sec = (IF tab[k].value >= text_base THEN DATA ELSE TEXT)

\* C4: if some name is defined by two input objects, whatever the flags,
\* the link fails with a duplicate-symbol error that names the object that
\* defined the reported name first and the object that defined it second,
\* and nothing is written.
C4_DuplicateFails ==
  (/\ pc \in {"undef", "reloc", "write", "done", "failed"}
   /\ \E nm \in LinkNames : \E a, b \in DOMAIN Definers(nm) :
        Definers(nm)[a].oi # Definers(nm)[b].oi)
  => /\ pc = "failed"
     /\ error.kind = "Duplicate symbol"
     /\ Len(Definers(error.name)) >= 2
     /\ error.first = Definers(error.name)[1].oi
     /\ error.second = Definers(error.name)[2].oi
     /\ out = << >>
     /\ written = << >>

\* a duplicate of a non-global and a global definition in different objects
C4_Witness ==
  /\ pc = "failed"
  /\ error.kind = "Duplicate symbol"
  /\ error.first # error.second
  /\ \E a, b \in DOMAIN Definers(error.name) :
       Definers(error.name)[a].s.flags # Definers(error.name)[b].s.flags

\* the names referenced by a relocation or an Undef entry
RefNames ==
  { AllRelocs[k].r.name : k \in DOMAIN AllRelocs } \cup
  { AllSyms[k].s.name : k \in { x \in DOMAIN AllSyms : AllSyms[x].s.sec = UNDEF } }

\* the referenced names no object defines
Unresolved == RefNames \ DefinedNames

\* what C5 says of a link that is past the undefined-reference check
UndefinedCheckHolds ==
  /\ (pc = "failed" /\ error.kind = "Undefined symbols") <=> (Unresolved # {})
  /\ error.kind = "Undefined symbols" => error.names = Unresolved
  /\ \A nm \in DOMAIN gsym : gsym[nm].sec # UNDEF /\ nm \in DefinedNames

\* C5 as stated: the link fails with an undefined-symbols error exactly when
\* some referenced name (relocation target or Undef entry) is defined by no
\* object; the error lists exactly the unresolved names; Undef entries are
\* never inserted into the global table.
C5_UndefinedExactly ==
  pc \in {"reloc", "write", "done", "failed"} => UndefinedCheckHolds

\* C5 amended: the same, for a link in which no name is defined twice (a
\* duplicate definition is reported first and ends the link before the
\* undefined-reference check).
C5_UndefinedUnlessDuplicate ==
  (pc \in {"reloc", "write", "done", "failed"} /\ error.kind # "Duplicate symbol")
    => UndefinedCheckHolds

\* an Undef entry that no object defines, reported with no relocation at all
C5_Witness ==
  /\ pc = "failed"
  /\ error.kind = "Undefined symbols"
  /\ error.names = Unresolved
  /\ AllRelocs = << >>
  /\ \E k \in DOMAIN AllSyms : AllSyms[k].s.sec = UNDEF

\* C6: the last 8 bytes of the executable are "ENTR" and the entry point as
\* little-endian u32, right after the symbol table; the entry point is the
\* absolute address of main when an input object defines it, else 0.
C6_EntryTrailer ==
  pc = "done" =>
    LET n == Len(written)
        d == Definers("main")
        want == IF d = << >> THEN 0
                ELSE (IF d[1].s.sec = TEXT THEN obj_text_base[d[1].oi]
                      ELSE obj_data_base[d[1].oi]) + d[1].s.value
    IN /\ n >= header_size + 8
       /\ SubSeq(written, n - 7, n - 4) = << 69, 78, 84, 82 >>
       /\ read_u32(written, n - 4) = want
       /\ WrittenSymTab.ok
       /\ WrittenSymTab.p = n - 8

\* an executable whose entry point is main at a non-zero address
C6_Witness ==
  /\ pc = "done"
  /\ Definers("main") # << >>
  /\ read_u32(written, Len(written) - 4) > 0
  /\ read_u32(written, Len(written) - 4) = gsym["main"].addr

\* ========================================================================
\* Properties of the assemblers (specifications SpecAsm and SpecAsmOld)
\* ========================================================================
\* the size of the text the object carries: 8 bytes per instruction
TextSize == 8 * Len(instrs)

\* the size of the data the object carries
DataSize == Len(data)

\* C7: an instruction with a symbolic operand appended at index k yields a
\* Text relocation at offset 8k+4 for that name, every Text relocation
\* offset has the form 8k+4, and offset+4 is at most the text size.  The
\* claim is made of both assembler sources.
C7_TextRelocOffsets ==
  apc \in {"parse", "parsed", "error"} =>
    /\ \A k \in DOMAIN instrs :
         instrs[k].label_ref # << >> =>
           \E j \in DOMAIN relocs :
             /\ relocs[j].sec = TEXT
             /\ relocs[j].offset = 8 * (k - 1) + 4
             /\ relocs[j].name = instrs[k].label_ref[1]
    /\ \A j \in DOMAIN relocs :
         relocs[j].sec = TEXT =>
           /\ relocs[j].offset % 8 = 4
           /\ relocs[j].offset + 4 <= TextSize

\* C8 as stated: in an emitted object every Text symbol has a value that is
\* a multiple of 8 and STRICTLY less than the text size, every Data symbol a
\* value strictly less than the data size.
C8_SymbolValuesBelowSize ==
  apc = "parsed" =>
    \A k \in DOMAIN symbols :
      /\ symbols[k].sec = TEXT =>
           symbols[k].value % 8 = 0 /\ symbols[k].value < TextSize
      /\ symbols[k].sec = DATA => symbols[k].value < DataSize

\* C8 amended: in an emitted object every Text symbol has a value that is a
\* multiple of 8 and at most the text size, every Data symbol a value at
\* most the data size (a label after the last statement of its section has
\* the size itself as value).
C8_SymbolValuesWithinSize ==
  apc = "parsed" =>
    \A k \in DOMAIN symbols :
      /\ symbols[k].sec = TEXT =>
           symbols[k].value % 8 = 0 /\ symbols[k].value <= TextSize
      /\ symbols[k].sec = DATA => symbols[k].value <= DataSize

\* an object whose Data section ends with a label, after some bytes
C8_Witness ==
  /\ apc = "parsed"
  /\ \E k \in DOMAIN symbols :
       /\ symbols[k].sec = DATA
       /\ symbols[k].value = DataSize
       /\ DataSize > 0

\* C9: a source that defines the same label twice is rejected, so that no
\* object is produced from it, and the symbol names of an emitted object
\* are pairwise distinct (defined symbols and Undef entries alike).  The
\* claim is made of both assembler sources.
C9_DuplicateLabelRejected ==
  apc = "parsed" =>
    /\ \A a, b \in DOMAIN toks :
         (a < b /\ toks[a].kind = "LABEL" /\ toks[b].kind = "LABEL")
           => toks[a].value # toks[b].value
    /\ \A a, b \in DOMAIN symbols :
         a # b => symbols[a].name # symbols[b].name

\* the names written as operands of a .global directive of the source
GlobalOperands ==
  UNION { { src[l][k].s :
              k \in { x \in 2..Len(src[l]) : src[l][x].shape = "word" } } :
          l \in { x \in DOMAIN src :
                    src[x] # << >> /\ src[x][1] = Dir(".global") } }

\* the names the emitted object defines
AsmDefined ==
  { symbols[k].name : k \in { x \in DOMAIN symbols : symbols[x].sec # UNDEF } }

\* C10: a defined symbol is flagged global exactly when its name is an
\* operand of some .global directive of the source, before or after the
\* definition; a .global name that is never defined appears exactly once,
\* as an Undef symbol with value 0 and the global flag.
C10_GlobalFlags ==
  apc = "parsed" =>
    /\ \A k \in DOMAIN symbols :
         symbols[k].sec # UNDEF =>
           (symbols[k].global <=> symbols[k].name \in GlobalOperands)
    /\ \A n \in GlobalOperands \ AsmDefined :
         /\ Cardinality({ k \in DOMAIN symbols : symbols[k].name = n }) = 1
         /\ \A k \in DOMAIN symbols :
              symbols[k].name = n =>
                /\ symbols[k].sec = UNDEF
                /\ symbols[k].value = 0
                /\ symbols[k].global

RECURSIVE RecordBytes(_, _)
\* the size of the first k records of a table: 10 bytes and the name each
RecordBytes(recs, k) ==
  IF k = 0 THEN 0
  ELSE RecordBytes(recs, k - 1) + 10 + Len(NameBytes(recs[k].name))

\* C11: every object file written has a 40-byte header with version 2 whose
\* offsets chain from the actual sizes (text_off = 40, data_off = text_off +
\* text_size, sym_off = data_off + data_size, rel_off = sym_off + size of
\* the symbol blob), with sym_count and rel_count the numbers of records,
\* also when text or data are empty.  The claim is made of both assembler
\* sources.
C11_HeaderChains ==
  apc = "done" =>
    /\ Len(afile) >= 40
    /\ read_u16(afile, 4) = 2
    /\ read_u32(afile, 8) = 40
    /\ read_u32(afile, 12) = TextSize
    /\ read_u32(afile, 16) = 40 + TextSize
    /\ read_u32(afile, 20) = DataSize
    /\ read_u32(afile, 24) = 40 + TextSize + DataSize
    /\ read_u32(afile, 28) = Len(symbols)
    /\ read_u32(afile, 32) =
         40 + TextSize + DataSize + RecordBytes(symbols, Len(symbols))
    /\ read_u32(afile, 36) = Len(relocs)
    /\ Len(afile) =
         40 + TextSize + DataSize + RecordBytes(symbols, Len(symbols))
           + RecordBytes(relocs, Len(relocs))

\* the byte k (0..3) of the little-endian 32-bit form of v
ByteOf(v, k) ==
  CASE k = 0 -> v % 256 [] k = 1 -> (v \div 256) % 256
    [] k = 2 -> (v \div 65536) % 256 [] k = 3 -> (v \div 16777216) % 256

\* the fields the operand table gives for the instruction at the cursor
OperandFields(m) ==
  LET Reg(k) == RegNumber(toks[i + k].value)
      Imm(k) == IntValue(toks[i + k].value)
      Sym(k) == toks[i + k].kind = "IDENT"
      F(rd, rs1, rs2, imm, lbl) ==
        [op |-> Opcode(m), rd |-> rd, rs1 |-> rs1, rs2 |-> rs2, imm |-> imm,
         label_ref |-> lbl]
  IN CASE m = "ldi" -> F(Reg(1), 0, 0, Imm(3), << >>)
       [] m = "mov" -> F(Reg(1), Reg(3), 0, 0, << >>)
       [] m \in {"add", "sub", "and", "or", "xor"} ->
            F(Reg(1), Reg(3), Reg(5), 0, << >>)
       [] m = "lw" -> F(Reg(1), Reg(4), 0, 0, << >>)
       [] m = "sw" -> F(0, Reg(4), Reg(1), 0, << >>)
       [] m \in {"jmp", "call"} ->
            IF Sym(1) THEN F(0, 0, 0, 0, << toks[i + 1].value >>)
            ELSE F(0, 0, 0, Imm(1), << >>)
       [] m \in {"beq", "bne"} ->
            IF Sym(5) THEN F(0, Reg(1), Reg(3), 0, << toks[i + 5].value >>)
            ELSE F(0, Reg(1), Reg(3), Imm(5), << >>)
       [] OTHER -> F(0, 0, 0, 0, << >>)

\* a step of the parser that accepts an instruction appends exactly the
\* instruction of the operand table
InstructionStep ==
  ( /\ apc = "parse" /\ current = TEXT /\ at(toks, i, "IDENT")
    /\ Lower(toks[i].value) \in Mnemonics
    /\ apc' = "parse" )
  => /\ Len(instrs') = Len(instrs) + 1
     /\ SubSeq(instrs', 1, Len(instrs)) = instrs
     /\ instrs'[Len(instrs')] = OperandFields(Lower(toks[i].value))
     /\ instrs'[Len(instrs')].rd \in 0..31
     /\ instrs'[Len(instrs')].rs1 \in 0..31
     /\ instrs'[Len(instrs')].rs2 \in 0..31

\* the text of a written object is the 8-byte records of the instructions
InstructionsEncoded ==
  apc = "done" =>
    /\ Len(afile) >= 40 + 8 * Len(instrs)
    /\ \A k \in DOMAIN instrs :
         SubSeq(afile, 40 + 8 * (k - 1) + 1, 40 + 8 * k) =
           << instrs[k].op, instrs[k].rd, instrs[k].rs1, instrs[k].rs2,
              ByteOf(instrs[k].imm, 0), ByteOf(instrs[k].imm, 1),
              ByteOf(instrs[k].imm, 2), ByteOf(instrs[k].imm, 3) >>

\* C12: for each of the fifteen mnemonics, matched case-insensitively, the
\* assembler appends exactly one instruction with the fields of the operand
\* table (unused fields 0, imm 0 for a symbolic operand, registers in
\* 0..31), and the instruction is encoded as the 8 bytes opcode, rd, rs1,
\* rs2, imm as little-endian 32-bit.
C12_InstructionEncoding ==
  [][InstructionStep]_vars /\ []InstructionsEncoded

\* an object with an instruction written in upper case with a negative
\* immediate
C12_Witness ==
  /\ apc = "done"
  /\ src = << << Wd("LDI"), Wd("x31"), Comma, Num("-1") >> >>
  /\ SubSeq(afile, 41, 48) = << 1, 31, 0, 0, 255, 255, 255, 255 >>

\* a .word directive in Data that is accepted appends 4 bytes: the value, or
\* zeros and a Data relocation at the former size
WordStep ==
  ( /\ apc = "parse" /\ current = DATA /\ at(toks, i, "DIRECTIVE")
    /\ Lower(toks[i].value) = ".word"
    /\ apc' = "parse" )
  => /\ Len(data') = Len(data) + 4
     /\ SubSeq(data', 1, Len(data)) = data
     /\ IF toks[i + 1].kind = "IDENT"
          THEN /\ SubSeq(data', Len(data) + 1, Len(data) + 4) = << 0, 0, 0, 0 >>
               /\ relocs' = Append(relocs, [sec |-> DATA, offset |-> Len(data),
                                            type |-> 0,
                                            name |-> toks[i + 1].value])
          ELSE /\ \A k \in 0..3 :
                    data'[Len(data) + 1 + k] = ByteOf(IntValue(toks[i + 1].value), k)
               /\ relocs' = relocs

\* every Data relocation lies inside the data
DataRelocsInside ==
  \A k \in DOMAIN relocs :
    relocs[k].sec = DATA => relocs[k].offset + 4 <= Len(data)

\* C13: in the Data section every .word directive grows the data by exactly
\* 4 bytes: a number is stored little-endian, an identifier stores four zero
\* bytes and records one Data relocation of type 0 at the size before the
\* append, also when the identifier is a label of the same source; every
\* Data relocation satisfies offset + 4 <= data size.
C13_WordDirective ==
  [][WordStep]_vars /\ []DataRelocsInside

\* a parsed source whose .word names a label the same source defines, after
\* other data
C13_Witness ==
  /\ apc = "parsed"
  /\ \E k \in DOMAIN relocs :
       /\ relocs[k].sec = DATA
       /\ relocs[k].name \in AsmDefined
       /\ Len(data) = 4

\* the object file layout written from the fields of a parsed object
Reserialise(o) ==
  LET symblob == SymTabBytes(
                   [k \in DOMAIN o.symbols |->
                      [sec |-> o.symbols[k].sec,
                       global |-> o.symbols[k].flags = 1,
                       value |-> o.symbols[k].value,
                       name |-> o.symbols[k].name]], Len(o.symbols))
      relblob == RelTabBytes(o.relocs, Len(o.relocs))
      data_off == 40 + Len(o.text)
      sym_off == data_off + Len(o.data)
  IN U32LE(MAGIC) \o U16LE(2) \o U16LE(0)
       \o U32LE(40) \o U32LE(Len(o.text))
       \o U32LE(data_off) \o U32LE(Len(o.data))
       \o U32LE(sym_off) \o U32LE(Len(o.symbols))
       \o U32LE(sym_off + Len(symblob)) \o U32LE(Len(o.relocs))
       \o o.text \o o.data \o symblob \o relblob

\* C18: reading the emitted object with the linker's reader yields exactly
\* the assembler's text bytes, data bytes, symbols (section, global flag,
\* value, name) and relocations (section, type, offset, name) in the same
\* order, and re-serialising the parsed object reproduces the bytes.
C18_RoundTrip ==
  (apc = "done" /\ robj # NoError) =>
    /\ robj.ok
    /\ Len(robj.text) = TextSize
    /\ robj.text = SubSeq(afile, 41, 40 + TextSize)
    /\ robj.data = data
    /\ Len(robj.symbols) = Len(symbols)
    /\ \A k \in DOMAIN symbols :
         /\ robj.symbols[k].sec = symbols[k].sec
         /\ (robj.symbols[k].flags = 1) <=> symbols[k].global
         /\ robj.symbols[k].flags \in {0, 1}
         /\ robj.symbols[k].value = symbols[k].value
         /\ robj.symbols[k].name = symbols[k].name
    /\ Len(robj.relocs) = Len(relocs)
    /\ \A k \in DOMAIN relocs :
         /\ robj.relocs[k].sec = relocs[k].sec
         /\ robj.relocs[k].type = relocs[k].type
         /\ robj.relocs[k].offset = relocs[k].offset
         /\ robj.relocs[k].name = relocs[k].name
    /\ Reserialise(robj) = afile

\* an object with data, a symbol and a relocation was written and read back
C18_Witness ==
  /\ apc = "done"
  /\ robj # NoError
  /\ robj.ok
  /\ Len(robj.symbols) >= 1
  /\ Len(robj.relocs) >= 1
  /\ Len(robj.data) >= 4

\* C20: the linker's object reader rejects any object file whose header
\* version field is 1; only version 2 objects are parsed.
C20_Version1Rejected ==
  (robj # NoError /\ Len(afile) >= 6 /\ read_u16(afile, 4) = 1) => ~robj.ok

\* ========================================================================
\* Properties of the macro processor (specification SpecMacro)
\* ========================================================================
\* C14: a .macro line read while a definition is still open is a hard
\* error: macros may not be nested.
C14_NestedMacroRejected ==
  [][(AtLine /\ inMacro /\ StartsWith(CurrentLine, DotMacro))
       => mpc' = "error"]_vars

\* a line outside a definition that invokes a macro and is expanded
Expands ==
  /\ AtLine
  /\ ~inMacro
  /\ ~StartsWith(CurrentLine, DotMacro)
  /\ Match(CurrentLine) # 0
  /\ mpc' = "expand"

RECURSIVE SubstituteOnce(_, _, _)
\* the line with every $k of the text from position p on replaced by the
\* k-th argument, the inserted text taken as it is
SubstituteOnce(s, args, p) ==
  IF p > Len(s) THEN << >>
  ELSE IF /\ s[p] = "$"
          /\ p < Len(s)
          /\ DigitValue(s[p + 1]) \in 1..Len(args)
    THEN args[DigitValue(s[p + 1])] \o SubstituteOnce(s, args, p + 2)
    ELSE << s[p] >> \o SubstituteOnce(s, args, p + 1)

\* C15: in an expansion every $k of a body line is replaced by the text of
\* the k-th argument, and the inserted text is never rescanned: an argument
\* 1 that contains $2 stays as it is.
C15_NoRescan ==
  [][Expands =>
       LET m == macros[Match(CurrentLine)]
           args == Arguments(CurrentLine, m)
       IN mout' = mout \o [k \in DOMAIN m.body |->
                             SubstituteOnce(m.body[k], args, 1)]]_vars

\* the last macro defined whose name starts the line s
LastDefined(s) ==
  LET hits == { k \in DOMAIN macros : Invokes(s, macros[k]) }
  IN CHOOSE k \in hits : \A r \in hits : r <= k

\* C16: a macro is usable only after its .endm; a second definition of a
\* name is accepted, an invocation between the two definitions expands
\* with the first body and an invocation below the second with the second.
C16_LatestDefinition ==
  [][/\ (AtLine /\ inMacro /\ mpc' = "expand") => mout' = mout
     /\ ( /\ AtLine /\ ~inMacro /\ ~StartsWith(CurrentLine, DotMacro)
          /\ Match(CurrentLine) = 0 )
          => mout' = Append(mout, msrc[mline])
     /\ Expands =>
          LET m == macros[LastDefined(CurrentLine)]
          IN mout' = mout \o Expansion(m, Arguments(CurrentLine, m))]_vars

\* ========================================================================
\* Properties of a run of either tool (specification SpecTools)
\* ========================================================================
\* a file exists only in the final state of a successful run, where it is
\* the complete output and the exit status is 0; after an error nothing is
\* written and the status is not 0
WrittenOnlyOnSuccess ==
  /\ written # << >> => (pc = "done" /\ rc = 0)
  /\ rc = 0 => (pc = "done" /\ written = out /\ Len(written) >= header_size)
  /\ pc \in {"failed", "rejected"} => (written = << >> /\ rc \in {-1, 1})
  /\ afile # << >> => (apc = "done" /\ arc = 0)
  /\ arc = 0 =>
       (apc = "done" /\ afile = assemble(instrs, data, symbols, relocs))
  /\ (apc = "error" \/ mpc = "error") => (afile = << >> /\ arc \in {-1, 1})

\* the step a failed run takes ends it with status 1 and writes nothing
ErrorExitsWithOne ==
  /\ (pc \in {"failed", "rejected"} /\ rc = -1)
       => (rc' = 1 /\ written' = << >>)
  /\ ((apc = "error" \/ mpc = "error") /\ arc = -1)
       => (arc' = 1 /\ afile' = << >>)

\* C19: both tools write their output file only after all processing has
\* succeeded: on any macro, lex, parse, symbol, format or link error nothing
\* is written and the exit status is 1; the status is 0 only after the
\* complete output has been written.
C19_WriteOnlyOnSuccess ==
  []WrittenOnlyOnSuccess /\ [][ErrorExitsWithOne]_vars

\* a linker run that failed after its inputs were loaded and has exited
C19_Witness ==
  /\ pc = "failed"
  /\ error.kind # "Cannot write output file"
  /\ rc = 1
  /\ written = << >>

\* ========================================================================
\* Properties of the relocation loop (specification Spec)
\* ========================================================================
\* a step of the relocation loop
RelocLoopStep == pc = "reloc" /\ rdone < Len(AllRelocs)

\* the relocation the loop is at
NextReloc == AllRelocs[rdone + 1]

\* the 1-based positions of the buffer of section sec that the step changes
ChangedBytes(sec) ==
  IF sec = TEXT
    THEN { k \in DOMAIN final_text : final_text'[k] # final_text[k] }
    ELSE { k \in DOMAIN final_data : final_data'[k] # final_data[k] }

\* the step leaves the lengths of both buffers and the buffer of the other
\* section as they are
OtherBytesKept(sec) ==
  /\ Len(final_text') = Len(final_text)
  /\ Len(final_data') = Len(final_data)
  /\ sec = TEXT => final_data' = final_data
  /\ sec = DATA => final_text' = final_text

\* C22: for every relocation, with any 32-bit offset and all arithmetic done
\* modulo 2^32, the linker either fails with an error or writes exactly the
\* 4 bytes at the indexes write_offset .. write_offset + 3 of the merged
\* buffer, all of them less than the buffer's size, where write_offset =
\* section_base[i] + r.offset; it never writes outside the buffer.
C22_WriteInsideBuffer ==
  [][RelocLoopStep =>
       LET it == NextReloc
           w == RelocField(it)
       IN \/ /\ pc' = "failed"
             /\ final_text' = final_text
             /\ final_data' = final_data
          \/ /\ pc' = "reloc"
             /\ rdone' = rdone + 1
             /\ w >= 0
             /\ w + 3 < Len(RelocBuffer(it))
             /\ OtherBytesKept(it.r.sec)
             /\ ChangedBytes(it.r.sec) \subseteq (w + 1)..(w + 4)
             /\ LET buf == IF it.r.sec = TEXT THEN final_text' ELSE final_data'
                IN SubSeq(buf, w + 1, w + 4) = U32LE(gsym[it.r.name].addr)]_vars

\* the size of the section a relocation item lies in, in its own object
OwnSectionSize(it) ==
  IF it.r.sec = TEXT THEN Len(objs[it.oi].text) ELSE Len(objs[it.oi].data)

\* C24: each relocation of object i modifies only bytes of object i's own
\* slice of the merged buffer, the bytes in [section_base[i], section_base[i]
\* + size of the section in object i); a relocation whose offset + 4 exceeds
\* the size of its own object's section is rejected.
C24_OwnSliceOnly ==
  [][RelocLoopStep =>
       LET it == NextReloc
       IN /\ (pc' = "reloc" /\ it.r.sec \in {TEXT, DATA}) =>
               /\ OtherBytesKept(it.r.sec)
               /\ ChangedBytes(it.r.sec) \subseteq
                    (RelocBase(it) + 1)..(RelocBase(it) + OwnSectionSize(it))
          /\ AboveSize(AddU32(it.r.offset, 4), OwnSectionSize(it)) =>
               pc' = "failed"]_vars

\* the object and record of the only definition of name n
OnlyDefiner(n) == Definers(n)[1]

\* name n is defined by one record, which is not global
DefinedNonGlobal(n) ==
  Len(Definers(n)) = 1 /\ OnlyDefiner(n).s.flags % 2 = 0

\* two objects define n and none of the definitions is global
NonGlobalTwice(n) ==
  /\ Len(Definers(n)) >= 2
  /\ \A k \in DOMAIN Definers(n) : Definers(n)[k].s.flags % 2 = 0

\* the link has passed the construction of the symbol table
PastGsym == pc \in {"undef", "reloc", "write", "done", "failed", "crashed"}

\* C25: names are resolved against the defined symbols of all objects
\* whatever their global flag: a name defined only as non-global is not
\* reported undefined, a relocation in another object that names it is
\* patched with its absolute address, and two non-global definitions of one
\* name in two objects fail to link as duplicates.
C25_GlobalFlagIgnored ==
  /\ [](PastGsym =>
          \A n \in LinkNames :
            /\ NonGlobalTwice(n) =>
                 (pc = "failed" /\ error.kind = "Duplicate symbol")
            /\ (DefinedNonGlobal(n) /\ error.kind = "Undefined symbols") =>
                 n \notin error.names)
  /\ [][( /\ RelocLoopStep
          /\ pc' = "reloc"
          /\ DefinedNonGlobal(NextReloc.r.name)
          /\ OnlyDefiner(NextReloc.r.name).oi # NextReloc.oi
          /\ FieldInBuffer(NextReloc) )
        => LET it == NextReloc
               d == OnlyDefiner(it.r.name)
               buf == IF it.r.sec = TEXT THEN final_text' ELSE final_data'
           IN read_u32(buf, RelocField(it)) =
                (IF d.s.sec = TEXT THEN obj_text_base[d.oi]
                 ELSE obj_data_base[d.oi]) + d.s.value]_vars

\* a link that succeeded with a relocation of the first object patched with
\* the address of a non-global symbol of the second
C25_Witness ==
  /\ pc = "done"
  /\ \E k \in DOMAIN AllRelocs :
       /\ AllRelocs[k].oi = 1
       /\ DefinedNonGlobal(AllRelocs[k].r.name)
       /\ OnlyDefiner(AllRelocs[k].r.name).oi = 2
       /\ FieldHoldsAddress(k)
       /\ gsym[AllRelocs[k].r.name].addr > 0

\* ========================================================================
\* Properties of the object reader (specification SpecRead)
\* ========================================================================
\* the exceptions of parse_vmo, whose messages end with the path
PathErrors ==
  { "File too small", "Bad magic", "text section out of range",
    "data section out of range", "symbol table truncated",
    "symbol name truncated", "reloc table truncated", "reloc name truncated" }

\* C23: the object reader never reads outside the file's bytes: for any
\* 32-bit values of the header fields and any name lengths, either every
\* text and data slice, symbol record, relocation record and name lies in
\* the file and is extracted, or parsing fails with an error that names
\* the file path.
C23_ReadsInsideFile ==
  robj # NoError =>
    IF robj.ok
      THEN LET n == Len(afile)
               text_off == read_u32(afile, 8)
               text_size == read_u32(afile, 12)
               data_off == read_u32(afile, 16)
               data_size == read_u32(afile, 20)
               sym_off == read_u32(afile, 24)
               rel_off == read_u32(afile, 32)
           IN /\ SliceInside(text_off, text_size, n)
              /\ robj.text = SubSeq(afile, text_off + 1, text_off + text_size)
              /\ SliceInside(data_off, data_size, n)
              /\ robj.data = SubSeq(afile, data_off + 1, data_off + data_size)
              /\ Len(robj.symbols) = read_u32(afile, 28)
              /\ Len(robj.relocs) = read_u32(afile, 36)
              /\ Len(robj.symbols) > 0 => SliceInside(sym_off, 10, n)
              /\ Len(robj.relocs) > 0 => SliceInside(rel_off, 10, n)
      ELSE robj.err.kind \in PathErrors

\* ========================================================================
\* Case of the directives (specification SpecMacro)
\* ========================================================================
\* tolower of a character
LowerChar(c) ==
  CASE c = "A" -> "a" [] c = "B" -> "b" [] c = "C" -> "c" [] c = "D" -> "d"
    [] c = "E" -> "e" [] c = "F" -> "f" [] c = "G" -> "g" [] c = "H" -> "h"
    [] c = "I" -> "i" [] c = "J" -> "j" [] c = "K" -> "k" [] c = "L" -> "l"
    [] c = "M" -> "m" [] c = "N" -> "n" [] c = "O" -> "o" [] c = "P" -> "p"
    [] c = "Q" -> "q" [] c = "R" -> "r" [] c = "S" -> "s" [] c = "T" -> "t"
    [] c = "U" -> "u" [] c = "V" -> "v" [] c = "W" -> "w" [] c = "X" -> "x"
    [] c = "Y" -> "y" [] c = "Z" -> "z" [] OTHER -> c

\* the line in lower case
LowerLine(s) == [k \in DOMAIN s |-> LowerChar(s[k])]

\* C21: the directives are recognised case-insensitively: a line that
\* starts with .macro in any case opens a macro definition (or is refused
\* for its missing name), and a line that starts with .endm in any case
\* closes the open definition, exactly as the lower-case spellings do.
C21_DirectiveCase ==
  [][/\ ( /\ AtLine /\ ~inMacro
          /\ StartsWith(LowerLine(CurrentLine), DotMacro) )
          => (inMacro' \/ mpc' = "error")
     /\ ( /\ AtLine /\ inMacro
          /\ StartsWith(LowerLine(CurrentLine), DotEndm) )
          => (~inMacro' /\ macros' = Append(macros, mcur))]_vars

\* ========================================================================
\* Properties of the parser (specifications SpecAsm and SpecAsmRun)
\* ========================================================================
\* the token kinds of the operands of an instruction line
OperandKinds ==
  {"IDENT", "REGISTER", "INT", "HEX", "BIN", "COMMA", "LBRACK", "RBRACK"}

\* the token at p is the first one of its line
FirstOfLine(p) == p = 1 \/ toks[p - 1].kind = "NEWLINE"

\* the token at p lies on a line that begins with an identifier and holds
\* operands only
OnInstrLine(p) ==
  \E s \in 1..p :
    /\ FirstOfLine(s)
    /\ toks[s].kind = "IDENT"
    /\ \A q \in s..p : toks[q].kind \in OperandKinds

\* the first NEWLINE or EOF token at or after p
LineEnd(p) ==
  CHOOSE e \in p..Len(toks) :
    /\ toks[e].kind \in {"NEWLINE", "EOF"}
    /\ \A q \in p..(e - 1) : toks[q].kind \notin {"NEWLINE", "EOF"}

\* the first token of the line after the one p lies on, or the EOF token
NextLine(p) ==
  IF toks[LineEnd(p)].kind = "NEWLINE" THEN LineEnd(p) + 1 ELSE LineEnd(p)

\* instrs, data, symbols and relocs are left as they are
OutputKept == UNCHANGED << instrs, data, symbols, relocs >>

\* C27: statements are gated by the current section: in Data, every token
\* of a line that begins with an identifier (an instruction line) is
\* skipped, one token per step, and in Text a .byte or .word line is
\* skipped to the end of the line; neither changes instrs, data, symbols
\* or relocs.
C27_SectionGating ==
  [][/\ (apc = "parse" /\ current = DATA /\ OnInstrLine(i))
          => (i' = i + 1 /\ apc' = "parse" /\ current' = DATA /\ OutputKept)
     /\ ( /\ apc = "parse" /\ current = TEXT /\ at(toks, i, "DIRECTIVE")
          /\ Lower(toks[i].value) \in {".byte", ".word"} )
          => (i' = NextLine(i) /\ apc' = "parse" /\ current' = TEXT
              /\ OutputKept)]_vars

\* an instruction line was skipped in Data and a .byte or .word line was
\* skipped in Text
C27_Witness ==
  /\ apc = "parsed"
  /\ instrs = << >> /\ data = << >> /\ relocs = << >>
  /\ \E p \in DOMAIN toks :
       /\ toks[p].kind = "DIRECTIVE" /\ Lower(toks[p].value) = ".data"
       /\ \E q \in (p + 1)..Len(toks) :
            toks[q].kind = "IDENT" /\ Lower(toks[q].value) \in Mnemonics
       /\ \E q \in 1..(p - 1) :
            /\ toks[q].kind = "DIRECTIVE"
            /\ Lower(toks[q].value) \in {".byte", ".word"}
            /\ toks[q + 1].kind \in {"INT", "IDENT"}

\* the parser has ended: it returned or it threw
ParserEnded == apc \in {"parsed", "error", "done"}

\* C28: parsing terminates on every token list the lexer produces: every
\* step of the main loop, with the inner loops it runs (rest of line,
\* .global list, .byte list), moves the cursor forward by at least one
\* token or raises an error, the cursor never passes the EOF token, and
\* the parser comes to its end.
C28_ParsingTerminates ==
  /\ [][apc = "parse" =>
          /\ (i' > i \/ apc' \in {"parsed", "error"})
          /\ i' \in DOMAIN toks
          /\ \A k \in 1..(i' - 1) : toks[k].kind # "EOF"]_vars
  /\ (apc = "parse") ~> ParserEnded

\* the parser went through a rest-of-line skip, a .global list and the
\* skip of single tokens, and stopped at the EOF token
C28_Witness ==
  /\ apc = "parsed"
  /\ i = Len(toks)
  /\ toks[i].kind = "EOF"
  /\ \E p \in DOMAIN toks :
       toks[p].kind = "DIRECTIVE" /\ Lower(toks[p].value) = ".global"
  /\ \E p \in DOMAIN toks : toks[p].kind = "INT" /\ FirstOfLine(p)

\* ========================================================================
\* Properties of the lexer (specification SpecLex)
\* ========================================================================
\* the positions at which a run of newline characters starts
NewlineRuns(s) ==
  { q \in DOMAIN s : s[q] = "\n" /\ CharAt(s, q - 1) # "\n" }

\* the tokens of the kind k
TokensOf(k) == { t \in DOMAIN ltoks : ltoks[t].kind = k }

\* C29: for every source text on which the lexer succeeds, the token list
\* holds exactly one EOF token, which is the last one, and no whitespace or
\* comment token; every run of k newline characters gives exactly one
\* NEWLINE token and advances the line counter by k.
C29_TokenList ==
  lpc = "done" =>
    /\ TokensOf("EOF") = {Len(ltoks)}
    /\ TokensOf("WS") = {} /\ TokensOf("COMMENT") = {}
    /\ Cardinality(TokensOf("NEWLINE")) = Cardinality(NewlineRuns(lsrc))
    /\ lline = 1 + CountNewlines(lsrc)

\* ========================================================================
\* Properties of the loader (specification SpecLoad)
\* ========================================================================
\* vm.memory[a]
MemByte(a) == IF a < Len(memory) THEN memory[a + 1] ELSE 0

\* the section sec of object k after relocation: its slice of the merged
\* buffer
SectionAfterReloc(k, sec) ==
  IF sec = TEXT
    THEN SubSeq(final_text, obj_text_base[k] + 1,
                obj_text_base[k] + Len(objs[k].text))
  ELSE SubSeq(final_data, (obj_data_base[k] - text_base) + 1,
              (obj_data_base[k] - text_base) + Len(objs[k].data))

\* the symbols of the input objects that are defined at an offset inside
\* their section
PlacedSymbols ==
  { it \in { FlatSyms(objs, Len(objs))[j] : j \in 1..Len(FlatSyms(objs, Len(objs))) } :
      /\ it.s.sec \in {TEXT, DATA}
      /\ it.s.value >= 0
      /\ it.s.value < Len(SectionAfterReloc(it.oi, it.s.sec)) }

\* C30: the loader's memory image agrees with the linker's addressing: for
\* an executable whose text and data fit in the memory, the merged text is
\* at address 0 and the merged data at the address equal to the total text
\* size, the byte at the absolute address of every symbol (defined at an
\* offset inside its section) is the byte at that offset of its object's
\* section after relocation, and the program counter is the entry point
\* the linker computed.
C30_LoaderAgreesWithLinker ==
  (ldpc = "loaded" /\ Len(final_text) + Len(final_data) <= MemSize) =>
    /\ \A a \in 0..(Len(final_text) - 1) : MemByte(a) = final_text[a + 1]
    /\ \A a \in 0..(Len(final_data) - 1) :
         MemByte(text_base + a) = final_data[a + 1]
    /\ \A it \in PlacedSymbols :
         MemByte(gsym[it.s.name].addr)
           = SectionAfterReloc(it.oi, it.s.sec)[it.s.value + 1]
    /\ PC = entry

\* an executable with text and data of two objects was loaded, with a data
\* symbol of the second object and an entry point
C30_Witness ==
  /\ ldpc = "loaded"
  /\ Len(objs) = 2
  /\ final_text # << >>
  /\ Len(objs[1].data) > 0
  /\ \E it \in PlacedSymbols : it.s.sec = DATA /\ it.oi = 2
  /\ "main" \in DOMAIN gsym
  /\ rdone > 0

\* ========================================================================
\* Location context of the error messages (specification SpecTools)
\* ========================================================================
\* what the message of an exception of the assembler carries, as the throw
\* site builds it: the line and column of a token, or nothing but the text
AsmMessageContext(e) ==
  CASE e.kind = "Unknown token" -> "line:col"
    [] e.kind = "Expected" -> "line:col"
    [] e.kind = "Expected int" -> "line:col"
    [] e.kind = "Cannot write file" -> "path"
    [] e.kind \in { "Expected ','", "register out of range",
                    "Duplicate symbol", ".byte does not support relocations",
                    "Unknown mnemonic", ".macro missing name",
                    "Macro expects args", "Unterminated .macro" } -> "none"
    [] OTHER -> "none"

\* what the message of an exception of the linker carries: the path of an
\* input or output file, or nothing but the text and symbol names
LinkMessageContext(e) ==
  CASE e.kind = "Bad object file" -> "path"
    [] e.kind = "Duplicate symbol" -> "path"
    [] e.kind = "Relocation write out of range" -> "path"
    [] e.kind = "Unsupported reloc type" -> "path"
    [] e.kind = "Cannot write output file" -> "path"
    [] e.kind \in { "Undefined symbols",
                    "Relocation refers to undefined symbol",
                    "Unknown relocation section" } -> "none"
    [] OTHER -> "none"

\* C26: every error message carries its source location: the line and
\* column for the lexing, parsing, macro and symbol errors of the
\* assembler, the path of the file for the errors of the linker.
C26_ErrorsLocated ==
  /\ aerror # NoError => AsmMessageContext(aerror) \in {"line:col", "path"}
  /\ merror # NoError => AsmMessageContext(merror) = "line:col"
  /\ error # NoError => LinkMessageContext(error) = "path"

====
